---------------------------- MODULE Spec2Model ----------------------------
(***************************************************************************)
(* A model of the fixed-heap allocator (src/allocator/alloc.h) and of the  *)
(* two SPI memory drivers (src/chip).  The allocator is modelled with the  *)
(* geometry of the source: 64 pages of 1024 bytes, a 16-byte header per    *)
(* page, 63 slots of 16 bytes or 5 slots of 192 bytes.                     *)
(***************************************************************************)
EXTENDS Integers, Sequences, FiniteSets, TLC

(***************************************************************************)
(* Allocator: constants of alloc.h                                         *)
(***************************************************************************)
HEAP_SIZE == 64 * 1024
PAGE_SIZE == 1024
PAGE_SHIFT == 10
PAGE_HEADER_SIZE == 16
BLOCK_SMALL == 15
BLOCK_BIG == 180
ALIGNED_BLOCK_SMALL == 16
ALIGNED_BLOCK_BIG == 192
SMALL_SEGMENTS == (PAGE_SIZE - PAGE_HEADER_SIZE) \div ALIGNED_BLOCK_SMALL
BIG_SEGMENTS == (PAGE_SIZE - PAGE_HEADER_SIZE) \div ALIGNED_BLOCK_BIG
PAGE_COUNT == HEAP_SIZE \div PAGE_SIZE
UINT16_MAX == 65535
\* The null pointer.
NULL == 0
\* Width of size_t in bits.
SIZE_BITS == 64
\* The address of heap[0]; the code never depends on its value.
HeapBase == 4096

Pages == 0 .. (PAGE_COUNT - 1)
HeaderBytes == 0 .. (PAGE_HEADER_SIZE - 1)

RECURSIVE Pow2(_)
Pow2(k) == IF k = 0 THEN 1 ELSE 2 * Pow2(k - 1)

\* 2^k modulo m, computed without leaving the machine integers of TLC.
RECURSIVE Pow2Mod(_, _)
Pow2Mod(k, m) == IF k = 0 THEN 1 % m ELSE (2 * Pow2Mod(k - 1, m)) % m

SetMin(S) == CHOOSE x \in S : \A y \in S : x <= y
SetMax(S) == CHOOSE x \in S : \A y \in S : x >= y

(***************************************************************************)
(* Allocator: helpers.  page_table is a function from the page index to a  *)
(* record [used_segments, type]; heap holds, for every page, the 16 bytes  *)
(* of its header (the only bytes of the arena the allocator reads or       *)
(* writes).                                                                *)
(***************************************************************************)
page_base_addr(page_index) == HeapBase + page_index * Pow2(PAGE_SHIFT)

page_data_addr(page_index) == page_base_addr(page_index) + PAGE_HEADER_SIZE

\* 1 << (index & 7)
Mask(index) == <<1, 2, 4, 8, 16, 32, 64, 128>>[(index % 8) + 1]

\* (bitmap[index >> 3] & (1 << (index & 7))) != 0
bitmap_is_set(bitmap, index) ==
  (bitmap[index \div 8] \div Mask(index)) % 2 = 1

\* Mutant of bitmap_set: the bit is not set.
bitmap_set_nothing(bitmap, index) == bitmap

\* Mutant of bitmap_set: the byte index is missing,
\* bitmap[0] |= (1 << (index & 7)).
bitmap_set_byte0(bitmap, index) ==
  IF (bitmap[0] \div Mask(index)) % 2 = 1
  THEN bitmap
  ELSE [bitmap EXCEPT ![0] = @ + Mask(index)]

\* bitmap[index >> 3] |= (1 << (index & 7))
bitmap_set(bitmap, index) ==
  IF bitmap_is_set(bitmap, index)
  THEN bitmap
  ELSE [bitmap EXCEPT ![index \div 8] = @ + Mask(index)]

\* Mutant of bitmap_clear: the complement is missing,
\* bitmap[index >> 3] &= (1 << (index & 7)).
bitmap_clear_no_complement(bitmap, index) ==
  [bitmap EXCEPT ![index \div 8] =
     IF bitmap_is_set(bitmap, index) THEN Mask(index) ELSE 0]

\* bitmap[index >> 3] &= ~(1 << (index & 7))
bitmap_clear(bitmap, index) ==
  IF bitmap_is_set(bitmap, index)
  THEN [bitmap EXCEPT ![index \div 8] = @ - Mask(index)]
  ELSE bitmap

\* The loop of find_free_block from bit i on.
RECURSIVE find_free_from(_, _, _)
find_free_from(bitmap, i, bit_count) ==
  IF i >= bit_count THEN UINT16_MAX
  ELSE IF ~bitmap_is_set(bitmap, i) THEN i
  ELSE find_free_from(bitmap, i + 1, bit_count)

\* Mutant of find_free_block: the loop starts at bit 1.
find_free_block_from_one(bitmap, bit_count) == find_free_from(bitmap, 1, bit_count)

\* The first clear bit among bits 0 .. bit_count-1, or UINT16_MAX.
find_free_block(bitmap, bit_count) == find_free_from(bitmap, 0, bit_count)

ZeroHeader == [b \in HeaderBytes |-> 0]

\* Each of the three setters returns the page table and the heap it leaves.
page_set_free(pt, hp, page_index) ==
  [page_table |-> [pt EXCEPT ![page_index] =
                      [used_segments |-> 0, type |-> "PAGE_FREE"]],
   heap |-> [hp EXCEPT ![page_index] = ZeroHeader]]

page_set_small(pt, hp, page_index) ==
  [page_table |-> [pt EXCEPT ![page_index] =
                      [used_segments |-> 0, type |-> "PAGE_SMALL"]],
   heap |-> hp]

\* Mutant of page_set_big: the body pasted from page_set_free with the type
\* left as it was there.
page_set_big_pasted(pt, hp, page_index) ==
  [page_table |-> [pt EXCEPT ![page_index] =
                      [used_segments |-> 0, type |-> "PAGE_FREE"]],
   heap |-> hp]

page_set_big(pt, hp, page_index) ==
  [page_table |-> [pt EXCEPT ![page_index] =
                      [used_segments |-> 0, type |-> "PAGE_BIG"]],
   heap |-> hp]

\* alloc_init(): page_set_free on every page, whatever the memory held.
alloc_init_table == [p \in Pages |-> [used_segments |-> 0, type |-> "PAGE_FREE"]]
alloc_init_heap == [p \in Pages |-> ZeroHeader]

(***************************************************************************)
(* Allocator: allocation.  Every operator returns the record               *)
(* [page_table, heap, ret] of the state it leaves and the pointer it       *)
(* returns.  The two loops of alloc_small and of alloc_big are the         *)
(* recursive operators below, from page `page` on.                         *)
(***************************************************************************)
\* The second loop: the first FREE page from `page` on, or PAGE_COUNT.
RECURSIVE first_free_page(_, _)
first_free_page(pt, page) ==
  IF page >= PAGE_COUNT THEN PAGE_COUNT
  ELSE IF pt[page].type = "PAGE_FREE" THEN page
  ELSE first_free_page(pt, page + 1)

\* The first loop of alloc_small: the first SMALL page from `page` on with
\* used_segments < SMALL_SEGMENTS and a clear bit, or PAGE_COUNT.
RECURSIVE first_small_page(_, _, _)
first_small_page(pt, hp, page) ==
  IF page >= PAGE_COUNT THEN PAGE_COUNT
  ELSE IF /\ pt[page].type = "PAGE_SMALL"
          /\ pt[page].used_segments < SMALL_SEGMENTS
          /\ find_free_block(hp[page], SMALL_SEGMENTS) # UINT16_MAX
       THEN page
  ELSE first_small_page(pt, hp, page + 1)

alloc_small(pt, hp) ==
  LET partial == first_small_page(pt, hp, 0)
      free == first_free_page(pt, 0)
  IN IF partial < PAGE_COUNT
     THEN LET free_block == find_free_block(hp[partial], SMALL_SEGMENTS)
          IN [page_table |-> [pt EXCEPT ![partial].used_segments = @ + 1],
              heap |-> [hp EXCEPT ![partial] = bitmap_set(@, free_block)],
              ret |-> page_data_addr(partial) + free_block * ALIGNED_BLOCK_SMALL]
     ELSE IF free < PAGE_COUNT
     THEN LET s == page_set_small(pt, hp, free)
          IN [page_table |-> [s.page_table EXCEPT ![free].used_segments = 1],
              heap |-> [s.heap EXCEPT ![free] = bitmap_set(@, 0)],
              ret |-> page_data_addr(free)]
     ELSE [page_table |-> pt, heap |-> hp, ret |-> NULL]

\* The first loop of alloc_big.
RECURSIVE first_big_page(_, _, _)
first_big_page(pt, hp, page) ==
  IF page >= PAGE_COUNT THEN PAGE_COUNT
  ELSE IF /\ pt[page].type = "PAGE_BIG"
          /\ pt[page].used_segments < BIG_SEGMENTS
          /\ find_free_block(hp[page], BIG_SEGMENTS) # UINT16_MAX
       THEN page
  ELSE first_big_page(pt, hp, page + 1)

\* Mutant of alloc_big: the second loop starts at page 1.
alloc_big_skip_first(pt, hp) ==
  LET partial == first_big_page(pt, hp, 0)
      free == first_free_page(pt, 1)
  IN IF partial < PAGE_COUNT
     THEN LET free_block == find_free_block(hp[partial], BIG_SEGMENTS)
          IN [page_table |-> [pt EXCEPT ![partial].used_segments = @ + 1],
              heap |-> [hp EXCEPT ![partial] = bitmap_set(@, free_block)],
              ret |-> page_data_addr(partial) + free_block * ALIGNED_BLOCK_BIG]
     ELSE IF free < PAGE_COUNT
     THEN LET s == page_set_big(pt, hp, free)
          IN [page_table |-> [s.page_table EXCEPT ![free].used_segments = 1],
              heap |-> [s.heap EXCEPT ![free] = bitmap_set(@, 0)],
              ret |-> page_data_addr(free)]
     ELSE [page_table |-> pt, heap |-> hp, ret |-> NULL]

alloc_big(pt, hp) ==
  LET partial == first_big_page(pt, hp, 0)
      free == first_free_page(pt, 0)
  IN IF partial < PAGE_COUNT
     THEN LET free_block == find_free_block(hp[partial], BIG_SEGMENTS)
          IN [page_table |-> [pt EXCEPT ![partial].used_segments = @ + 1],
              heap |-> [hp EXCEPT ![partial] = bitmap_set(@, free_block)],
              ret |-> page_data_addr(partial) + free_block * ALIGNED_BLOCK_BIG]
     ELSE IF free < PAGE_COUNT
     THEN LET s == page_set_big(pt, hp, free)
          IN [page_table |-> [s.page_table EXCEPT ![free].used_segments = 1],
              heap |-> [s.heap EXCEPT ![free] = bitmap_set(@, 0)],
              ret |-> page_data_addr(free)]
     ELSE [page_table |-> pt, heap |-> hp, ret |-> NULL]

\* Mutant of custom_malloc: size < BLOCK_SMALL for size <= BLOCK_SMALL.
custom_malloc_lt(pt, hp, size) ==
  IF size = 0 THEN [page_table |-> pt, heap |-> hp, ret |-> NULL]
  ELSE IF size < BLOCK_SMALL THEN alloc_small(pt, hp)
  ELSE IF size <= BLOCK_BIG THEN alloc_big(pt, hp)
  ELSE [page_table |-> pt, heap |-> hp, ret |-> NULL]

\* Mutant of custom_malloc: the test of size == 0 is missing.
custom_malloc_no_zero_check(pt, hp, size) ==
  IF size <= BLOCK_SMALL THEN alloc_small(pt, hp)
  ELSE IF size <= BLOCK_BIG THEN alloc_big(pt, hp)
  ELSE [page_table |-> pt, heap |-> hp, ret |-> NULL]

custom_malloc(pt, hp, size) ==
  IF size = 0 THEN [page_table |-> pt, heap |-> hp, ret |-> NULL]
  ELSE IF size <= BLOCK_SMALL THEN alloc_small(pt, hp)
  ELSE IF size <= BLOCK_BIG THEN alloc_big(pt, hp)
  ELSE [page_table |-> pt, heap |-> hp, ret |-> NULL]

(***************************************************************************)
(* Allocator: release.  offset_in_page is a size_t: a pointer below the    *)
(* data of its page (inside the header) gives a difference d < 0 that      *)
(* wraps to 2^SIZE_BITS + d.  size_t_mod and size_t_div compute the        *)
(* remainder and the quotient of the wrapped value.  The quotient of a     *)
(* wrapped value exceeds every machine integer of TLC; it is represented   *)
(* by 2^30 \div m, a lower bound of it, which the code only compares with  *)
(* the segment count.                                                      *)
(***************************************************************************)
size_t_mod(d, m) ==
  IF d >= 0 THEN d % m ELSE (Pow2Mod(SIZE_BITS, m) + (d % m)) % m

size_t_div(d, m) ==
  IF d >= 0 THEN d \div m ELSE Pow2(30) \div m

\* Mutant of free_in_page: the test of the slot's bit is missing, so a slot
\* released twice is counted twice.
free_in_page_no_bit_check(pt, hp, pointer, page_index, aligned, segments) ==
  LET offset_in_page == pointer - page_data_addr(page_index)
      bit_index == size_t_div(offset_in_page, aligned)
  IN IF size_t_mod(offset_in_page, aligned) # 0
       THEN [page_table |-> pt, heap |-> hp]
     ELSE IF bit_index >= segments
       THEN [page_table |-> pt, heap |-> hp]
     ELSE LET pt1 == [pt EXCEPT ![page_index].used_segments = @ - 1]
              hp1 == [hp EXCEPT ![page_index] = bitmap_clear(@, bit_index)]
          IN IF pt1[page_index].used_segments = 0
             THEN page_set_free(pt1, hp1, page_index)
             ELSE [page_table |-> pt1, heap |-> hp1]

\* Mutant of free_in_page: a page whose last slot is released is not
\* returned to FREE.
free_in_page_keeps_page(pt, hp, pointer, page_index, aligned, segments) ==
  LET offset_in_page == pointer - page_data_addr(page_index)
      bit_index == size_t_div(offset_in_page, aligned)
  IN IF size_t_mod(offset_in_page, aligned) # 0
       THEN [page_table |-> pt, heap |-> hp]
     ELSE IF bit_index >= segments
       THEN [page_table |-> pt, heap |-> hp]
     ELSE IF ~bitmap_is_set(hp[page_index], bit_index)
       THEN [page_table |-> pt, heap |-> hp]
     ELSE [page_table |-> [pt EXCEPT ![page_index].used_segments = @ - 1],
           heap |-> [hp EXCEPT ![page_index] = bitmap_clear(@, bit_index)]]

\* Mutant of free_in_page: the page is returned to FREE when one slot is
\* still in use (used_segments <= 1 for used_segments == 0).
free_in_page_early(pt, hp, pointer, page_index, aligned, segments) ==
  LET offset_in_page == pointer - page_data_addr(page_index)
      bit_index == size_t_div(offset_in_page, aligned)
  IN IF size_t_mod(offset_in_page, aligned) # 0
       THEN [page_table |-> pt, heap |-> hp]
     ELSE IF bit_index >= segments
       THEN [page_table |-> pt, heap |-> hp]
     ELSE IF ~bitmap_is_set(hp[page_index], bit_index)
       THEN [page_table |-> pt, heap |-> hp]
     ELSE LET pt1 == [pt EXCEPT ![page_index].used_segments = @ - 1]
              hp1 == [hp EXCEPT ![page_index] = bitmap_clear(@, bit_index)]
          IN IF pt1[page_index].used_segments <= 1
             THEN page_set_free(pt1, hp1, page_index)
             ELSE [page_table |-> pt1, heap |-> hp1]

\* The body shared by the two branches of custom_free, for a page of the
\* class with slots of `aligned` bytes and `segments` slots.
free_in_page(pt, hp, pointer, page_index, aligned, segments) ==
  LET offset_in_page == pointer - page_data_addr(page_index)
      bit_index == size_t_div(offset_in_page, aligned)
  IN IF size_t_mod(offset_in_page, aligned) # 0
       THEN [page_table |-> pt, heap |-> hp]
     ELSE IF bit_index >= segments
       THEN [page_table |-> pt, heap |-> hp]
     ELSE IF ~bitmap_is_set(hp[page_index], bit_index)
       THEN [page_table |-> pt, heap |-> hp]
     ELSE LET pt1 == [pt EXCEPT ![page_index].used_segments = @ - 1]
              hp1 == [hp EXCEPT ![page_index] = bitmap_clear(@, bit_index)]
          IN IF pt1[page_index].used_segments = 0
             THEN page_set_free(pt1, hp1, page_index)
             ELSE [page_table |-> pt1, heap |-> hp1]

custom_free(pt, hp, pointer) ==
  IF pointer = NULL \/ pointer < HeapBase \/ pointer >= HeapBase + HEAP_SIZE
    THEN [page_table |-> pt, heap |-> hp]
  ELSE LET offset == pointer - HeapBase
           page_index == offset \div Pow2(PAGE_SHIFT)
       IN IF pt[page_index].used_segments = 0
            THEN [page_table |-> pt, heap |-> hp]
          ELSE IF pt[page_index].type = "PAGE_SMALL"
            THEN free_in_page(pt, hp, pointer, page_index,
                              ALIGNED_BLOCK_SMALL, SMALL_SEGMENTS)
          ELSE IF pt[page_index].type = "PAGE_BIG"
            THEN free_in_page(pt, hp, pointer, page_index,
                              ALIGNED_BLOCK_BIG, BIG_SEGMENTS)
          ELSE [page_table |-> pt, heap |-> hp]

(***************************************************************************)
(* The allocator as a state machine.                                       *)
(*   page_table, heap : the two static regions of alloc.h                  *)
(*   last             : the last call, [op, arg, ret]                      *)
(*   live             : the pointers returned by custom_malloc and not     *)
(*                      passed to custom_free since                        *)
(*   mode, n          : the workload the caller runs and the number of     *)
(*                      scripted calls of it made so far                   *)
(*   done             : the workload has ended                             *)
(* A workload is a sequence of calls after alloc_init():                   *)
(*   explore     any calls, within the bounds below                        *)
(*   deep_small  63 SMALL allocations, then as explore                     *)
(*   deep_big    5 BIG allocations, then as explore                        *)
(*   recycle     63 SMALL allocations, their releases in reverse order,    *)
(*               one BIG allocation                                        *)
(*   first_three custom_malloc(1), custom_malloc(16), custom_malloc(180)   *)
(*   fill_small  SMALL allocations until one fails                         *)
(*   fill_big    BIG allocations until one fails                           *)
(*   fill_mixed  custom_malloc(1), then BIG allocations until one fails    *)
(* A workload ends with its first call that changes neither page_table nor *)
(* heap: the states after such a call are the states before it.            *)
(***************************************************************************)
VARIABLES page_table, heap, last, live, mode, n, done

allocVars == <<page_table, heap, last, live, mode, n, done>>

(***************************************************************************)
(* The chip drivers (src/chip).  A driver object holds the error latch     *)
(* _errorCode and talks to its device through an IDriver: select(),        *)
(* deselect() and transfer(byte).  An operation of a driver is run one bus *)
(* call at a time: `stack' holds the frames of the member functions in     *)
(* progress (the public operation at the bottom), `cs' is the chip-select  *)
(* line, `bus' the bus calls of the current public operation in order, and *)
(* the byte a transfer() returns is chosen by the device `dev'.  A         *)
(* transfer() whose returned byte the driver keeps is recorded in `bus'    *)
(* with that byte.  `latched' is the value the current operation last      *)
(* assigned to _errorCode ("none" before it assigns one).  A caller that   *)
(* runs a fixed sequence of calls has it in `script' and keeps in `hist'   *)
(* what each finished call gave.                                           *)
(***************************************************************************)
VARIABLES chip, stack, cs, bus, errorCode, result, call, outbuf, busy,
          latched, dev, script, hist

chipVars == <<chip, stack, cs, bus, errorCode, result, call, outbuf, busy,
              latched, dev, script, hist>>

RECURSIVE BitAnd(_, _)
BitAnd(a, b) ==
  IF a = 0 \/ b = 0 THEN 0
  ELSE (a % 2) * (b % 2) + 2 * BitAnd(a \div 2, b \div 2)

BitOr(a, b) == a + b - BitAnd(a, b)

\* uint8_t x with bit `index' cleared: x & ~(1 << index).
BitClear(x, index) == x - BitAnd(x, Pow2(index))

\* A uint32_t as its two 16-bit halves.
U32(hi, lo) == [hi |-> hi, lo |-> lo]

\* a + k in uint32_t arithmetic, for 0 <= k < 65536.
U32Add(a, k) ==
  U32((a.hi + ((a.lo + k) \div 65536)) % 65536, (a.lo + k) % 65536)

\* a > b and a % m for uint32_t a, b and a divisor m of 65536.
U32Gt(a, b) == a.hi > b.hi \/ (a.hi = b.hi /\ a.lo > b.lo)
U32Mod(a, m) == (((a.hi % m) * (65536 % m)) + a.lo) % m

\* The buffer behind a pointer argument: null, or bytes given by a pattern.
DataAt(data, i) ==
  CASE data.pat = "zeros" -> 0
    [] data.pat = "ones" -> 255
    [] data.pat = "ramp" -> (i + 1) % 256
    [] OTHER -> 0

(***************************************************************************)
(* Frames and instructions.  A frame is a member function in progress:     *)
(* its name, its position, its arguments and locals (`r' receives the      *)
(* value of the call or transfer it last made).  The function's definition *)
(* gives, for a frame, the next thing it does: a bus call, a call of       *)
(* another member function or its return; `in' is the byte the device      *)
(* answers if that thing is a transfer.                                    *)
(***************************************************************************)
Frame(fn, address, index, value, length, data) ==
  [fn |-> fn, pc |-> 0, address |-> address, index |-> index,
   value |-> value, length |-> length, data |-> data,
   i |-> 0, offset |-> 0, chunk |-> 0, r |-> 0]

NoData == [null |-> TRUE, pat |-> "none"]

ISelect(nf) == [k |-> "select", nf |-> nf]
IDeselect(nf) == [k |-> "deselect", nf |-> nf]
ITransfer(out, nf) == [k |-> "transfer", out |-> out, store |-> FALSE, nf |-> nf]
ITransferStore(out, nf) == [k |-> "transfer", out |-> out, store |-> TRUE, nf |-> nf]
ICall(callee, nf) == [k |-> "call", callee |-> callee, nf |-> nf]
\* return val, after _errorCode = err ("KEEP": the latch is not assigned).
IReturn(val, err) == [k |-> "return", val |-> val, err |-> err]

At(f, pc) == [f EXCEPT !.pc = pc]

(***************************************************************************)
(* EEPROM25LC040A (src/chip/include/25LC040A.h, src/chip/src/25LC040A.cpp) *)
(***************************************************************************)
EEPROM_READ == 3
EEPROM_WRITE == 2
EEPROM_WREN == 6
EEPROM_RDSR == 5
EEPROM_WIP == 1
EEPROM_WEL == 2
EEPROM_MAX_ADDR == 511
EEPROM_PAGE_SIZE == 16

buildAndSendInstruction_eight_bits(instr, address) == instr

\* The command byte buildAndSendInstruction transfers.
buildAndSendInstruction(instr, address) ==
  IF (address \div 256) % 2 = 1 THEN BitOr(instr, 8) ELSE instr

EEPROM_readStatus(f, in) ==
  CASE f.pc = 0 -> ISelect(At(f, 1))
    [] f.pc = 1 -> ITransfer(EEPROM_RDSR, At(f, 2))
    [] f.pc = 2 -> ITransfer(255, [f EXCEPT !.pc = 3, !.r = in])
    [] f.pc = 3 -> IDeselect(At(f, 4))
    [] f.pc = 4 -> IReturn(f.r, "KEEP")

EEPROM_wait_any_bit(f, in) ==
  CASE f.pc = 0 ->
         ICall(Frame("EEPROM::readStatus", 0, 0, 0, 0, NoData), At(f, 1))
    [] f.pc = 1 ->
         IF f.r # 0
         THEN ICall(Frame("EEPROM::readStatus", 0, 0, 0, 0, NoData), At(f, 1))
         ELSE IReturn(0, "KEEP")

EEPROM_wait_once(f, in) ==
  CASE f.pc = 0 ->
         ICall(Frame("EEPROM::readStatus", 0, 0, 0, 0, NoData), At(f, 1))
    [] f.pc = 1 -> IReturn(0, "KEEP")

EEPROM_wait(f, in) ==
  CASE f.pc = 0 ->
         ICall(Frame("EEPROM::readStatus", 0, 0, 0, 0, NoData), At(f, 1))
    [] f.pc = 1 ->
         IF BitAnd(f.r, EEPROM_WIP) # 0
         THEN ICall(Frame("EEPROM::readStatus", 0, 0, 0, 0, NoData), At(f, 1))
         ELSE IReturn(0, "KEEP")

EEPROM_readByte(f, in) ==
  CASE f.pc = 0 ->
         IF f.address > EEPROM_MAX_ADDR
         THEN IReturn(0, "ADDRESS_OUT_OF_RANGE")
         ELSE ISelect(At(f, 1))
    [] f.pc = 1 ->
         ITransfer(buildAndSendInstruction(EEPROM_READ, f.address), At(f, 2))
    [] f.pc = 2 -> ITransfer(f.address % 256, At(f, 3))
    [] f.pc = 3 -> ITransfer(255, [f EXCEPT !.pc = 4, !.r = in])
    [] f.pc = 4 -> IDeselect(At(f, 5))
    [] f.pc = 5 -> IReturn(f.r, "OK")

EEPROM_writeByte_cs_held(f, in) ==
  CASE f.pc = 0 ->
         IF f.address > EEPROM_MAX_ADDR
         THEN IReturn(0, "ADDRESS_OUT_OF_RANGE")
         ELSE ISelect(At(f, 1))
    [] f.pc = 1 -> ITransfer(EEPROM_WREN, At(f, 2))
    [] f.pc = 2 -> IDeselect(At(f, 3))
    [] f.pc = 3 ->
         ICall(Frame("EEPROM::readStatus", 0, 0, 0, 0, NoData), At(f, 4))
    [] f.pc = 4 -> ISelect(At(f, 5))
    [] f.pc = 5 ->
         IF BitAnd(f.r, EEPROM_WEL) = 0
         THEN IReturn(0, "WRITE_NOT_ENABLED")
         ELSE ITransfer(buildAndSendInstruction(EEPROM_WRITE, f.address),
                        At(f, 6))
    [] f.pc = 6 -> ITransfer(f.address % 256, At(f, 7))
    [] f.pc = 7 -> ITransfer(f.value, At(f, 8))
    [] f.pc = 8 -> IDeselect(At(f, 9))
    [] f.pc = 9 -> ICall(Frame("EEPROM::wait", 0, 0, 0, 0, NoData), At(f, 10))
    [] f.pc = 10 -> IReturn(0, "OK")

EEPROM_writeByte(f, in) ==
  CASE f.pc = 0 ->
         IF f.address > EEPROM_MAX_ADDR
         THEN IReturn(0, "ADDRESS_OUT_OF_RANGE")
         ELSE ISelect(At(f, 1))
    [] f.pc = 1 -> ITransfer(EEPROM_WREN, At(f, 2))
    [] f.pc = 2 -> IDeselect(At(f, 3))
    [] f.pc = 3 ->
         ICall(Frame("EEPROM::readStatus", 0, 0, 0, 0, NoData), At(f, 4))
    [] f.pc = 4 ->
         IF BitAnd(f.r, EEPROM_WEL) = 0
         THEN IReturn(0, "WRITE_NOT_ENABLED")
         ELSE ISelect(At(f, 5))
    [] f.pc = 5 ->
         ITransfer(buildAndSendInstruction(EEPROM_WRITE, f.address), At(f, 6))
    [] f.pc = 6 -> ITransfer(f.address % 256, At(f, 7))
    [] f.pc = 7 -> ITransfer(f.value, At(f, 8))
    [] f.pc = 8 -> IDeselect(At(f, 9))
    [] f.pc = 9 -> ICall(Frame("EEPROM::wait", 0, 0, 0, 0, NoData), At(f, 10))
    [] f.pc = 10 -> IReturn(0, "OK")

EEPROM_readBit(f, in) ==
  CASE f.pc = 0 ->
         IF f.address > EEPROM_MAX_ADDR
         THEN IReturn(0, "ADDRESS_OUT_OF_RANGE")
         ELSE IF f.index > 7
         THEN IReturn(0, "INDEX_BIT_OUT_OF_RANGE")
         ELSE ICall(Frame("EEPROM::readByte", f.address, 0, 0, 0, NoData),
                    At(f, 1))
    [] f.pc = 1 -> IReturn((f.r \div Pow2(f.index)) % 2, "KEEP")

EEPROM_writeBit_late_index(f, in) ==
  CASE f.pc = 0 ->
         IF f.address > EEPROM_MAX_ADDR
         THEN IReturn(0, "ADDRESS_OUT_OF_RANGE")
         ELSE ICall(Frame("EEPROM::readByte", f.address, 0, 0, 0, NoData),
                    At(f, 1))
    [] f.pc = 1 ->
         IF f.index > 7
         THEN IReturn(0, "INDEX_BIT_OUT_OF_RANGE")
         ELSE LET byte == IF f.value # 0 THEN BitOr(f.r, Pow2(f.index))
                          ELSE BitClear(f.r, f.index)
              IN ICall(Frame("EEPROM::writeByte", f.address, 0, byte, 0,
                             NoData), At(f, 2))
    [] f.pc = 2 -> IReturn(0, "KEEP")

EEPROM_writeBit(f, in) ==
  CASE f.pc = 0 ->
         IF f.address > EEPROM_MAX_ADDR
         THEN IReturn(0, "ADDRESS_OUT_OF_RANGE")
         ELSE IF f.index > 7
         THEN IReturn(0, "INDEX_BIT_OUT_OF_RANGE")
         ELSE ICall(Frame("EEPROM::readByte", f.address, 0, 0, 0, NoData),
                    At(f, 1))
    [] f.pc = 1 ->
         LET byte == IF f.value # 0 THEN BitOr(f.r, Pow2(f.index))
                     ELSE BitClear(f.r, f.index)
         IN ICall(Frame("EEPROM::writeByte", f.address, 0, byte, 0, NoData),
                  At(f, 2))
    [] f.pc = 2 -> IReturn(0, "KEEP")

\* Mutant of EEPROM_readArray: the sum addr + len - 1 is kept in 16 bits.
EEPROM_readArray_wrap16(f, in) ==
  CASE f.pc = 0 ->
         IF f.length = 0 THEN IReturn(0, "OK")
         ELSE IF (f.address + f.length - 1) % 65536 > EEPROM_MAX_ADDR
         THEN IReturn(0, "ADDRESS_OUT_OF_RANGE")
         ELSE IF f.data.null THEN IReturn(0, "NULL_POINTER")
         ELSE ISelect(At(f, 1))
    [] f.pc = 1 ->
         ITransfer(buildAndSendInstruction(EEPROM_READ, f.address), At(f, 2))
    [] f.pc = 2 -> ITransfer(f.address % 256, [f EXCEPT !.pc = 3, !.i = 0])
    [] f.pc = 3 ->
         IF f.i < f.length
         THEN ITransferStore(255, [f EXCEPT !.i = (@ + 1) % 65536])
         ELSE IDeselect(At(f, 4))
    [] f.pc = 4 -> IReturn(0, "OK")

EEPROM_readArray_range_first(f, in) ==
  CASE f.pc = 0 ->
         IF f.address + f.length - 1 > EEPROM_MAX_ADDR
         THEN IReturn(0, "ADDRESS_OUT_OF_RANGE")
         ELSE IF f.length = 0 THEN IReturn(0, "OK")
         ELSE IF f.data.null THEN IReturn(0, "NULL_POINTER")
         ELSE ISelect(At(f, 1))
    [] f.pc = 1 ->
         ITransfer(buildAndSendInstruction(EEPROM_READ, f.address), At(f, 2))
    [] f.pc = 2 -> ITransfer(f.address % 256, [f EXCEPT !.pc = 3, !.i = 0])
    [] f.pc = 3 ->
         IF f.i < f.length
         THEN ITransferStore(255, [f EXCEPT !.i = (@ + 1) % 65536])
         ELSE IDeselect(At(f, 4))
    [] f.pc = 4 -> IReturn(0, "OK")

EEPROM_readArray(f, in) ==
  CASE f.pc = 0 ->
         IF f.length = 0 THEN IReturn(0, "OK")
         ELSE IF f.address + f.length - 1 > EEPROM_MAX_ADDR
         THEN IReturn(0, "ADDRESS_OUT_OF_RANGE")
         ELSE IF f.data.null THEN IReturn(0, "NULL_POINTER")
         ELSE ISelect(At(f, 1))
    [] f.pc = 1 ->
         ITransfer(buildAndSendInstruction(EEPROM_READ, f.address), At(f, 2))
    [] f.pc = 2 -> ITransfer(f.address % 256, [f EXCEPT !.pc = 3, !.i = 0])
    [] f.pc = 3 ->
         IF f.i < f.length
         THEN ITransferStore(255, [f EXCEPT !.i = (@ + 1) % 65536])
         ELSE IDeselect(At(f, 4))
    [] f.pc = 4 -> IReturn(0, "OK")

writeArray_while_full_page(f) ==
  IF f.length > 0
  THEN LET chunk == IF f.length < EEPROM_PAGE_SIZE THEN f.length
                    ELSE EEPROM_PAGE_SIZE
       IN ISelect([f EXCEPT !.pc = 2, !.chunk = chunk])
  ELSE IReturn(0, "OK")

writeArray_while_one_chunk(f) ==
  IF f.length > 0
  THEN ISelect([f EXCEPT !.pc = 2, !.chunk = f.length])
  ELSE IReturn(0, "OK")

\* The head of writeArray's loop: while (length > 0) { ...; select();
writeArray_while(f) ==
  IF f.length > 0
  THEN LET page_offset == f.address % EEPROM_PAGE_SIZE
           rest == (EEPROM_PAGE_SIZE - page_offset) % 65536
           chunk == IF f.length < rest THEN f.length ELSE rest
       IN ISelect([f EXCEPT !.pc = 2, !.chunk = chunk])
  ELSE IReturn(0, "OK")

EEPROM_writeArray(f, in) ==
  CASE f.pc = 0 ->
         IF f.length = 0 THEN IReturn(0, "OK")
         ELSE IF f.address + f.length - 1 > EEPROM_MAX_ADDR
         THEN IReturn(0, "ADDRESS_OUT_OF_RANGE")
         ELSE IF f.data.null THEN IReturn(0, "NULL_POINTER")
         ELSE writeArray_while([f EXCEPT !.offset = 0])
    [] f.pc = 2 -> ITransfer(EEPROM_WREN, At(f, 3))
    [] f.pc = 3 -> IDeselect(At(f, 4))
    [] f.pc = 4 ->
         ICall(Frame("EEPROM::readStatus", 0, 0, 0, 0, NoData), At(f, 5))
    [] f.pc = 5 ->
         IF BitAnd(f.r, EEPROM_WEL) = 0
         THEN IReturn(0, "WRITE_NOT_ENABLED")
         ELSE ISelect(At(f, 6))
    [] f.pc = 6 ->
         ITransfer(buildAndSendInstruction(EEPROM_WRITE, f.address), At(f, 7))
    [] f.pc = 7 -> ITransfer(f.address % 256, [f EXCEPT !.pc = 8, !.i = 0])
    [] f.pc = 8 ->
         IF f.i < f.chunk
         THEN ITransfer(DataAt(f.data, f.offset + f.i),
                        [f EXCEPT !.i = (@ + 1) % 65536])
         ELSE IDeselect(At(f, 9))
    [] f.pc = 9 -> ICall(Frame("EEPROM::wait", 0, 0, 0, 0, NoData), At(f, 10))
    [] f.pc = 10 ->
         writeArray_while([f EXCEPT !.address = (@ + f.chunk) % 65536,
                                    !.offset = (@ + f.chunk) % 65536,
                                    !.length = (@ - f.chunk) % 65536])

(***************************************************************************)
(* NORW25Q128 (src/chip/include/W25Q128.h, src/chip/src/W25Q128.cpp)       *)
(***************************************************************************)
NOR_READ == 3
NOR_FAST_READ == 11
NOR_PAGE_PROGRAM == 2
NOR_SECTOR_ERASE == 32
NOR_BLOCK_ERASE_32K == 82
NOR_BLOCK_ERASE_64K == 216
NOR_CHIP_ERASE == 199
NOR_WRITE_ENABLE == 6
NOR_READ_STATUS_REG1 == 5
NOR_BUSY == 1
NOR_WEL == 2
NOR_SECTOR_SIZE == 4 * 1024
NOR_BLOCK_32K_SIZE == 32 * 1024
NOR_BLOCK_64K_SIZE == 64 * 1024
NOR_MAX_ADDR == U32(255, 65535)

Zero32 == U32(0, 0)

\* The three bytes sendAddress transfers, k = 0, 1, 2.
sendAddress(address, k) ==
  CASE k = 0 -> address.hi % 256
    [] k = 1 -> address.lo \div 256
    [] k = 2 -> address.lo % 256

NOR_readStatusReg1(f, in) ==
  CASE f.pc = 0 -> ISelect(At(f, 1))
    [] f.pc = 1 -> ITransfer(NOR_READ_STATUS_REG1, At(f, 2))
    [] f.pc = 2 -> ITransfer(255, [f EXCEPT !.pc = 3, !.r = in])
    [] f.pc = 3 -> IDeselect(At(f, 4))
    [] f.pc = 4 -> IReturn(f.r, "KEEP")

NOR_wait(f, in) ==
  CASE f.pc = 0 ->
         ICall(Frame("NOR::readStatusReg1", Zero32, 0, 0, 0, NoData), At(f, 1))
    [] f.pc = 1 ->
         IF BitAnd(f.r, NOR_BUSY) # 0
         THEN ICall(Frame("NOR::readStatusReg1", Zero32, 0, 0, 0, NoData),
                    At(f, 1))
         ELSE IReturn(0, "KEEP")

NOR_writeEnable_unchecked(f, in) ==
  CASE f.pc = 0 -> ISelect(At(f, 1))
    [] f.pc = 1 -> ITransfer(NOR_WRITE_ENABLE, At(f, 2))
    [] f.pc = 2 -> IDeselect(At(f, 3))
    [] f.pc = 3 ->
         ICall(Frame("NOR::readStatusReg1", Zero32, 0, 0, 0, NoData), At(f, 4))
    [] f.pc = 4 -> IReturn(1, "KEEP")

NOR_writeEnable(f, in) ==
  CASE f.pc = 0 -> ISelect(At(f, 1))
    [] f.pc = 1 -> ITransfer(NOR_WRITE_ENABLE, At(f, 2))
    [] f.pc = 2 -> IDeselect(At(f, 3))
    [] f.pc = 3 ->
         ICall(Frame("NOR::readStatusReg1", Zero32, 0, 0, 0, NoData), At(f, 4))
    [] f.pc = 4 ->
         IReturn(IF BitAnd(f.r, NOR_WEL) # 0 THEN 1 ELSE 0, "KEEP")

NOR_readByte(f, in) ==
  CASE f.pc = 0 ->
         IF U32Gt(f.address, NOR_MAX_ADDR)
         THEN IReturn(0, "ADDRESS_OUT_OF_RANGE")
         ELSE ISelect(At(f, 1))
    [] f.pc = 1 -> ITransfer(NOR_READ, At(f, 2))
    [] f.pc = 2 -> ITransfer(sendAddress(f.address, 0), At(f, 3))
    [] f.pc = 3 -> ITransfer(sendAddress(f.address, 1), At(f, 4))
    [] f.pc = 4 -> ITransfer(sendAddress(f.address, 2), At(f, 5))
    [] f.pc = 5 -> ITransfer(255, [f EXCEPT !.pc = 6, !.r = in])
    [] f.pc = 6 -> IDeselect(At(f, 7))
    [] f.pc = 7 -> IReturn(f.r, "OK")

NOR_readBit(f, in) ==
  CASE f.pc = 0 ->
         IF f.index > 7
         THEN IReturn(0, "INDEX_BIT_OUT_OF_RANGE")
         ELSE ICall(Frame("NOR::readByte", f.address, 0, 0, 0, NoData),
                    At(f, 1))
    [] f.pc = 1 -> IReturn((f.r \div Pow2(f.index)) % 2, "KEEP")

NOR_readArray(f, in) ==
  CASE f.pc = 0 ->
         IF f.length = 0 THEN IReturn(0, "OK")
         ELSE IF f.data.null THEN IReturn(0, "NULL_POINTER")
         ELSE IF U32Gt(U32Add(f.address, f.length - 1), NOR_MAX_ADDR)
         THEN IReturn(0, "ADDRESS_OUT_OF_RANGE")
         ELSE ISelect(At(f, 1))
    [] f.pc = 1 -> ITransfer(NOR_FAST_READ, At(f, 2))
    [] f.pc = 2 -> ITransfer(sendAddress(f.address, 0), At(f, 3))
    [] f.pc = 3 -> ITransfer(sendAddress(f.address, 1), At(f, 4))
    [] f.pc = 4 -> ITransfer(sendAddress(f.address, 2), At(f, 5))
    [] f.pc = 5 -> ITransfer(255, [f EXCEPT !.pc = 6, !.i = 0])
    [] f.pc = 6 ->
         IF f.i < f.length
         THEN ITransferStore(255, [f EXCEPT !.i = (@ + 1) % 65536])
         ELSE IDeselect(At(f, 7))
    [] f.pc = 7 -> IReturn(0, "OK")

\* The head of isProgramCompatible's loop.
isProgramCompatible_for(f) ==
  IF f.i < f.length
  THEN ICall(Frame("NOR::readByte", U32Add(f.address, f.i), 0, 0, 0, NoData),
             At(f, 1))
  ELSE IReturn(1, "KEEP")

NOR_isProgramCompatible_erased_only(f, in) ==
  CASE f.pc = 0 -> isProgramCompatible_for([f EXCEPT !.i = 0])
    [] f.pc = 1 ->
         IF errorCode # "OK" THEN IReturn(0, "KEEP")
         ELSE IF f.r # 255
         THEN IReturn(0, "KEEP")
         ELSE isProgramCompatible_for([f EXCEPT !.i = (@ + 1) % 65536])

NOR_isProgramCompatible(f, in) ==
  CASE f.pc = 0 -> isProgramCompatible_for([f EXCEPT !.i = 0])
    [] f.pc = 1 ->
         IF errorCode # "OK" THEN IReturn(0, "KEEP")
         ELSE IF BitAnd(f.r, DataAt(f.data, f.i)) # DataAt(f.data, f.i)
         THEN IReturn(0, "KEEP")
         ELSE isProgramCompatible_for([f EXCEPT !.i = (@ + 1) % 65536])

NOR_pageProgram(f, in) ==
  CASE f.pc = 0 ->
         IF f.length = 0 THEN IReturn(0, "OK")
         ELSE IF \/ U32Gt(U32Add(f.address, f.length - 1), NOR_MAX_ADDR)
                 \/ f.length > 256
         THEN IReturn(0, "ADDRESS_OUT_OF_RANGE")
         ELSE IF (f.address.lo % 256) + f.length > 256
         THEN IReturn(0, "OUT_OF_PAGE")
         ELSE IF f.data.null THEN IReturn(0, "NULL_POINTER")
         ELSE ICall(Frame("NOR::isProgramCompatible", f.address, 0, 0,
                          f.length, f.data), At(f, 1))
    [] f.pc = 1 ->
         IF f.r = 0 THEN IReturn(0, "NEEDS_ERASE")
         ELSE ICall(Frame("NOR::writeEnable", Zero32, 0, 0, 0, NoData),
                    At(f, 2))
    [] f.pc = 2 ->
         IF f.r = 0 THEN IReturn(0, "WRITE_NOT_ENABLED")
         ELSE ISelect(At(f, 3))
    [] f.pc = 3 -> ITransfer(NOR_PAGE_PROGRAM, At(f, 4))
    [] f.pc = 4 -> ITransfer(sendAddress(f.address, 0), At(f, 5))
    [] f.pc = 5 -> ITransfer(sendAddress(f.address, 1), At(f, 6))
    [] f.pc = 6 ->
         ITransfer(sendAddress(f.address, 2), [f EXCEPT !.pc = 7, !.i = 0])
    [] f.pc = 7 ->
         IF f.i < f.length
         THEN ITransfer(DataAt(f.data, f.i), [f EXCEPT !.i = (@ + 1) % 65536])
         ELSE IDeselect(At(f, 8))
    [] f.pc = 8 ->
         ICall(Frame("NOR::wait", Zero32, 0, 0, 0, NoData), At(f, 9))
    [] f.pc = 9 -> IReturn(0, "OK")

\* eraseSector, eraseBlock32 and eraseBlock64: one body, with the opcode
\* and the alignment of each.
NOR_erase_align_first(f, in, opcode, size) ==
  CASE f.pc = 0 ->
         IF U32Mod(f.address, size) # 0
         THEN IReturn(0, "BAD_ADDRESS_ALIGNMENT")
         ELSE IF U32Gt(f.address, NOR_MAX_ADDR)
         THEN IReturn(0, "ADDRESS_OUT_OF_RANGE")
         ELSE ICall(Frame("NOR::writeEnable", Zero32, 0, 0, 0, NoData),
                    At(f, 1))
    [] f.pc = 1 ->
         IF f.r = 0 THEN IReturn(0, "WRITE_NOT_ENABLED")
         ELSE ISelect(At(f, 2))
    [] f.pc = 2 -> ITransfer(opcode, At(f, 3))
    [] f.pc = 3 -> ITransfer(sendAddress(f.address, 0), At(f, 4))
    [] f.pc = 4 -> ITransfer(sendAddress(f.address, 1), At(f, 5))
    [] f.pc = 5 -> ITransfer(sendAddress(f.address, 2), At(f, 6))
    [] f.pc = 6 -> IDeselect(At(f, 7))
    [] f.pc = 7 ->
         ICall(Frame("NOR::wait", Zero32, 0, 0, 0, NoData), At(f, 8))
    [] f.pc = 8 -> IReturn(0, "OK")

NOR_erase(f, in, opcode, size) ==
  CASE f.pc = 0 ->
         IF U32Gt(f.address, NOR_MAX_ADDR)
         THEN IReturn(0, "ADDRESS_OUT_OF_RANGE")
         ELSE IF U32Mod(f.address, size) # 0
         THEN IReturn(0, "BAD_ADDRESS_ALIGNMENT")
         ELSE ICall(Frame("NOR::writeEnable", Zero32, 0, 0, 0, NoData),
                    At(f, 1))
    [] f.pc = 1 ->
         IF f.r = 0 THEN IReturn(0, "WRITE_NOT_ENABLED")
         ELSE ISelect(At(f, 2))
    [] f.pc = 2 -> ITransfer(opcode, At(f, 3))
    [] f.pc = 3 -> ITransfer(sendAddress(f.address, 0), At(f, 4))
    [] f.pc = 4 -> ITransfer(sendAddress(f.address, 1), At(f, 5))
    [] f.pc = 5 -> ITransfer(sendAddress(f.address, 2), At(f, 6))
    [] f.pc = 6 -> IDeselect(At(f, 7))
    [] f.pc = 7 ->
         ICall(Frame("NOR::wait", Zero32, 0, 0, 0, NoData), At(f, 8))
    [] f.pc = 8 -> IReturn(0, "OK")

NOR_eraseSector(f, in) == NOR_erase(f, in, NOR_SECTOR_ERASE, NOR_SECTOR_SIZE)
NOR_eraseBlock32_sector_aligned(f, in) ==
  NOR_erase(f, in, NOR_BLOCK_ERASE_32K, NOR_SECTOR_SIZE)

NOR_eraseBlock32(f, in) ==
  NOR_erase(f, in, NOR_BLOCK_ERASE_32K, NOR_BLOCK_32K_SIZE)
NOR_eraseBlock64(f, in) ==
  NOR_erase(f, in, NOR_BLOCK_ERASE_64K, NOR_BLOCK_64K_SIZE)

NOR_eraseChip_no_ok(f, in) ==
  CASE f.pc = 0 ->
         ICall(Frame("NOR::writeEnable", Zero32, 0, 0, 0, NoData), At(f, 1))
    [] f.pc = 1 ->
         IF f.r = 0 THEN IReturn(0, "WRITE_NOT_ENABLED")
         ELSE ISelect(At(f, 2))
    [] f.pc = 2 -> ITransfer(NOR_CHIP_ERASE, At(f, 3))
    [] f.pc = 3 -> IDeselect(At(f, 4))
    [] f.pc = 4 ->
         ICall(Frame("NOR::wait", Zero32, 0, 0, 0, NoData), At(f, 5))
    [] f.pc = 5 -> IReturn(0, "KEEP")

NOR_eraseChip(f, in) ==
  CASE f.pc = 0 ->
         ICall(Frame("NOR::writeEnable", Zero32, 0, 0, 0, NoData), At(f, 1))
    [] f.pc = 1 ->
         IF f.r = 0 THEN IReturn(0, "WRITE_NOT_ENABLED")
         ELSE ISelect(At(f, 2))
    [] f.pc = 2 -> ITransfer(NOR_CHIP_ERASE, At(f, 3))
    [] f.pc = 3 -> IDeselect(At(f, 4))
    [] f.pc = 4 ->
         ICall(Frame("NOR::wait", Zero32, 0, 0, 0, NoData), At(f, 5))
    [] f.pc = 5 -> IReturn(0, "OK")

\* The next thing frame f does.
Exec(f, in) ==
  CASE f.fn = "EEPROM::readStatus" -> EEPROM_readStatus(f, in)
    [] f.fn = "EEPROM::wait" -> EEPROM_wait(f, in)
    [] f.fn = "EEPROM::readByte" -> EEPROM_readByte(f, in)
    [] f.fn = "EEPROM::writeByte" -> EEPROM_writeByte(f, in)
    [] f.fn = "EEPROM::readBit" -> EEPROM_readBit(f, in)
    [] f.fn = "EEPROM::writeBit" -> EEPROM_writeBit(f, in)
    [] f.fn = "EEPROM::readArray" -> EEPROM_readArray(f, in)
    [] f.fn = "EEPROM::writeArray" -> EEPROM_writeArray(f, in)
    [] f.fn = "NOR::readStatusReg1" -> NOR_readStatusReg1(f, in)
    [] f.fn = "NOR::wait" -> NOR_wait(f, in)
    [] f.fn = "NOR::writeEnable" -> NOR_writeEnable(f, in)
    [] f.fn = "NOR::readByte" -> NOR_readByte(f, in)
    [] f.fn = "NOR::readBit" -> NOR_readBit(f, in)
    [] f.fn = "NOR::readArray" -> NOR_readArray(f, in)
    [] f.fn = "NOR::isProgramCompatible" -> NOR_isProgramCompatible(f, in)
    [] f.fn = "NOR::pageProgram" -> NOR_pageProgram(f, in)
    [] f.fn = "NOR::eraseSector" -> NOR_eraseSector(f, in)
    [] f.fn = "NOR::eraseBlock32" -> NOR_eraseBlock32(f, in)
    [] f.fn = "NOR::eraseBlock64" -> NOR_eraseBlock64(f, in)
    [] f.fn = "NOR::eraseChip" -> NOR_eraseChip(f, in)

vars == <<allocVars, chipVars>>

\* Bounds of the exploring workloads: the pages in use, the live
\* allocations (beyond the kept ones), and in the deep workloads the first
\* slot of page 0 that the caller keeps allocated.
MaxPagesUsed == 2
MaxLive == 3
DeepLow == 2

\* Request sizes: the boundaries of the two classes and both rejected sides.
Sizes == {0, 1, BLOCK_SMALL, BLOCK_SMALL + 1, BLOCK_BIG, BLOCK_BIG + 1}

RECURSIVE SumUsed(_, _)
SumUsed(pt, k) == IF k < 0 THEN 0 ELSE pt[k].used_segments + SumUsed(pt, k - 1)

\* The allocations a deep workload keeps: the slots of page 0 from DeepLow on.
Kept(m) ==
  IF m = "deep_small"
    THEN {page_data_addr(0) + i * ALIGNED_BLOCK_SMALL : i \in DeepLow .. (SMALL_SEGMENTS - 1)}
  ELSE IF m = "deep_big"
    THEN {page_data_addr(0) + i * ALIGNED_BLOCK_BIG : i \in DeepLow .. (BIG_SEGMENTS - 1)}
  ELSE {}

InScope(pt) ==
  /\ \A p \in MaxPagesUsed .. (PAGE_COUNT - 1) : pt[p].type = "PAGE_FREE"
  /\ SumUsed(pt, MaxPagesUsed - 1) <= MaxLive + Cardinality(Kept(mode))

\* The length of the scripted part of a workload.
ScriptLen(m) ==
  IF m = "deep_small" THEN SMALL_SEGMENTS
  ELSE IF m = "deep_big" THEN BIG_SEGMENTS
  ELSE IF m = "recycle" THEN 2 * SMALL_SEGMENTS + 1
  ELSE IF m = "first_three" THEN 3
  ELSE IF m \in {"fill_small", "fill_big", "fill_mixed"}
    THEN SMALL_SEGMENTS * PAGE_COUNT + 1
  ELSE 0

Exploring == mode \in {"explore", "deep_small", "deep_big"} /\ n = ScriptLen(mode)

\* The calls a workload allows as its call number k + 1.
ScriptCalls(m, k, lv) ==
  IF m = "deep_small" /\ k < SMALL_SEGMENTS
    THEN {[op |-> "custom_malloc", arg |-> 1]}
  ELSE IF m = "deep_big" /\ k < BIG_SEGMENTS
    THEN {[op |-> "custom_malloc", arg |-> BLOCK_SMALL + 1]}
  ELSE IF m = "recycle" /\ k < SMALL_SEGMENTS
    THEN {[op |-> "custom_malloc", arg |-> 1]}
  ELSE IF m = "recycle" /\ k < 2 * SMALL_SEGMENTS
    THEN IF lv = {} THEN {} ELSE {[op |-> "custom_free", arg |-> SetMax(lv)]}
  ELSE IF m = "recycle" /\ k = 2 * SMALL_SEGMENTS
    THEN {[op |-> "custom_malloc", arg |-> BLOCK_SMALL + 1]}
  ELSE IF m = "first_three" /\ k < 3
    THEN {[op |-> "custom_malloc", arg |-> <<1, BLOCK_SMALL + 1, BLOCK_BIG>>[k + 1]]}
  ELSE IF m = "fill_small"
    THEN {[op |-> "custom_malloc", arg |-> 1], [op |-> "custom_malloc", arg |-> BLOCK_SMALL]}
  ELSE IF m = "fill_big" \/ (m = "fill_mixed" /\ k > 0)
    THEN {[op |-> "custom_malloc", arg |-> BLOCK_SMALL + 1],
          [op |-> "custom_malloc", arg |-> BLOCK_BIG]}
  ELSE IF m = "fill_mixed"
    THEN {[op |-> "custom_malloc", arg |-> 1]}
  ELSE {}

\* Pointers a caller may release that name no allocation of its own: null,
\* the bytes around the arena, and in page 0 a header byte, slot 0, a
\* misaligned address, the second slot of either class and the tail of a BIG
\* page; slot 0 of page 1 and of the last page.
StrayPtrs ==
  {NULL, HeapBase - 1, HeapBase + HEAP_SIZE}
    \cup {page_base_addr(0) + o : o \in {8, 16, 17, 32, 208, 976}}
    \cup {page_data_addr(1), page_data_addr(PAGE_COUNT - 1)}

FreeArgs ==
  IF Exploring THEN (live \cup StrayPtrs) \ Kept(mode)
  ELSE {c.arg : c \in {d \in ScriptCalls(mode, n, live) : d.op = "custom_free"}}

(***************************************************************************)
(* The calls made on a driver, and the steps of a call.                    *)
(***************************************************************************)
\* Bounds: the longest array argument that is in range, and the number of
\* status reads the device answers busy within one operation.
MaxLength == 4
MaxBusy == 1

Call(op, address, index, value, length, data) ==
  [op |-> op, address |-> address, index |-> index, value |-> value,
   length |-> length, data |-> data]

\* No call: the address is of the type the chip's calls have.
NoCall == Call("none", IF chip = "NOR" THEN Zero32 ELSE 0, 0, 0, 0, NoData)

EepromAddresses == {0, 14, 255, 511, 512, 65535}
NorAddresses ==
  {U32(0, 0), U32(0, 255), U32(0, 256), U32(0, 4096), U32(0, 32768),
   U32(1, 0), U32(255, 65535), U32(256, 0), U32(65535, 65535)}
Indexes == {0, 7, 8}
ByteValues == {0, 165}
Lengths == 0 .. MaxLength
OutBuffers == {NoData, [null |-> FALSE, pat |-> "out"]}
InBuffers == {NoData, [null |-> FALSE, pat |-> "ramp"]}
ProgramBuffers == InBuffers \cup {[null |-> FALSE, pat |-> "ones"]}

\* The bytes a device answers.
DeviceBytes == {0, 1, 2, 255}

EepromCalls ==
  {Call("EEPROM::readStatus", 0, 0, 0, 0, NoData)}
  \cup {Call("EEPROM::readByte", a, 0, 0, 0, NoData) : a \in EepromAddresses}
  \cup {Call("EEPROM::writeByte", a, 0, v, 0, NoData) :
          a \in EepromAddresses, v \in ByteValues}
  \cup {Call("EEPROM::readBit", a, x, 0, 0, NoData) :
          a \in EepromAddresses, x \in Indexes}
  \cup {Call("EEPROM::writeBit", a, x, v, 0, NoData) :
          a \in EepromAddresses, x \in Indexes, v \in {0, 1}}
  \cup {Call("EEPROM::readArray", a, 0, 0, l, d) :
          a \in EepromAddresses, l \in Lengths, d \in OutBuffers}
  \cup {Call("EEPROM::writeArray", a, 0, 0, l, d) :
          a \in EepromAddresses, l \in Lengths, d \in InBuffers}

NorCalls ==
  {Call("NOR::readStatusReg1", Zero32, 0, 0, 0, NoData)}
  \cup {Call("NOR::readByte", a, 0, 0, 0, NoData) : a \in NorAddresses}
  \cup {Call("NOR::readBit", a, x, 0, 0, NoData) :
          a \in NorAddresses, x \in Indexes}
  \cup {Call("NOR::readArray", a, 0, 0, l, d) :
          a \in NorAddresses, l \in Lengths, d \in OutBuffers}
  \cup {Call("NOR::pageProgram", a, 0, 0, l, d) :
          a \in NorAddresses, l \in Lengths \cup {257}, d \in ProgramBuffers}
  \cup {Call(op, a, 0, 0, 0, NoData) :
          op \in {"NOR::eraseSector", "NOR::eraseBlock32", "NOR::eraseBlock64"},
          a \in NorAddresses}
  \cup {Call("NOR::eraseChip", Zero32, 0, 0, 0, NoData)}

Calls == IF chip = "EEPROM" THEN EepromCalls ELSE NorCalls

(***************************************************************************)
(* The device behind the bus.  Its memory `mem' holds the bytes that are   *)
(* not erased (an erased byte reads 0xFF), `wel' its write-enable latch,   *)
(* `wip' the number of status reads it will still answer busy, `frame'     *)
(* the bytes it received since chip select was asserted.  The device of    *)
(* kind "any" answers any byte to every transfer.                          *)
(***************************************************************************)
AnyDevice == [kind |-> "any", mem |-> <<>>, wel |-> 0, wip |-> 0, frame |-> <<>>]

FaithfulDevice ==
  [kind |-> "faithful", mem |-> <<>>, wel |-> 0, wip |-> 0, frame |-> <<>>]

\* A device that answers any byte and may report busy for ever; the bus
\* calls made to it are not recorded.
SlowDevice == [kind |-> "slow", mem |-> <<>>, wel |-> 0, wip |-> 0, frame |-> <<>>]

Traced == dev.kind # "slow"

MemAt(mem, a) == IF a \in DOMAIN mem THEN mem[a] ELSE 255

MemPut(mem, a, b) ==
  [x \in (DOMAIN mem \cup {a}) \ (IF b = 255 THEN {a} ELSE {}) |->
     IF x = a THEN b ELSE mem[x]]

\* The address of the j-th byte of a write that starts at a0, in a device
\* whose write-address counter wraps inside a page of `size' bytes.
PageAddr(a0, j, size) == (a0 - (a0 % size)) + (((a0 % size) + j) % size)

\* The status register as the device shows it: WIP/BUSY bit 0, WEL bit 1.
DevStatus(d) == 2 * d.wel + (IF d.wip > 0 THEN 1 ELSE 0)

\* The 25LC040A: the low three bits of the first byte are the instruction,
\* its bit 3 the ninth address bit; the second byte is the low address.
EepromOp(frame) == frame[1] % 8
EepromAddress(frame) == ((frame[1] \div 8) % 2) * 256 + frame[2]

EepromOut(d) ==
  IF d.frame = <<>> THEN 255
  ELSE IF EepromOp(d.frame) = 5 THEN DevStatus(d)
  ELSE IF EepromOp(d.frame) = 3 /\ Len(d.frame) >= 2
  THEN MemAt(d.mem, (EepromAddress(d.frame) + Len(d.frame) - 2) % 512)
  ELSE 255

RECURSIVE EepromProgram(_, _, _)
EepromProgram(mem, frame, k) ==
  IF k > Len(frame) THEN mem
  ELSE EepromProgram(
         MemPut(mem, PageAddr(EepromAddress(frame), k - 3, 16), frame[k]),
         frame, k + 1)

EepromDeselect(d) ==
  IF Len(d.frame) = 1 /\ EepromOp(d.frame) = 6
  THEN {[d EXCEPT !.wel = 1, !.frame = <<>>]}
  ELSE IF Len(d.frame) >= 3 /\ EepromOp(d.frame) = 2 /\ d.wel = 1
  THEN {[d EXCEPT !.mem = EepromProgram(d.mem, d.frame, 3), !.wel = 0,
                  !.wip = w, !.frame = <<>>] : w \in 0 .. MaxBusy}
  ELSE {[d EXCEPT !.frame = <<>>]}

\* The W25Q128: an opcode, then for most a 24-bit address, high byte first.
NorAddress(frame) == frame[2] * 65536 + frame[3] * 256 + frame[4]

NorOut(d) ==
  IF d.frame = <<>> THEN 255
  ELSE IF d.frame[1] = 5 THEN DevStatus(d)
  ELSE IF d.frame[1] = 3 /\ Len(d.frame) >= 4
  THEN MemAt(d.mem, (NorAddress(d.frame) + Len(d.frame) - 4) % 16777216)
  ELSE IF d.frame[1] = 11 /\ Len(d.frame) >= 5
  THEN MemAt(d.mem, (NorAddress(d.frame) + Len(d.frame) - 5) % 16777216)
  ELSE 255

\* Programming can only clear bits: the byte becomes old & new.
RECURSIVE NorProgram(_, _, _)
NorProgram(mem, frame, k) ==
  IF k > Len(frame) THEN mem
  ELSE LET a == PageAddr(NorAddress(frame), k - 5, 256)
       IN NorProgram(MemPut(mem, a, BitAnd(MemAt(mem, a), frame[k])),
                     frame, k + 1)

\* The region of `size' bytes that holds address a becomes erased.
NorErase(mem, a, size) ==
  [x \in {y \in DOMAIN mem : y \div size # a \div size} |-> mem[x]]

NorEraseSize(opcode) ==
  CASE opcode = 32 -> 4096
    [] opcode = 82 -> 32768
    [] opcode = 216 -> 65536

NorDeselect(d) ==
  IF d.frame = <<6>>
  THEN {[d EXCEPT !.wel = 1, !.frame = <<>>]}
  ELSE IF d.wel = 1 /\ Len(d.frame) >= 5 /\ d.frame[1] = 2
  THEN {[d EXCEPT !.mem = NorProgram(d.mem, d.frame, 5), !.wel = 0,
                  !.wip = w, !.frame = <<>>] : w \in 0 .. MaxBusy}
  ELSE IF d.wel = 1 /\ Len(d.frame) = 4 /\ d.frame[1] \in {32, 82, 216}
  THEN {[d EXCEPT !.mem = NorErase(d.mem, NorAddress(d.frame),
                                   NorEraseSize(d.frame[1])),
                  !.wel = 0, !.wip = w, !.frame = <<>>] : w \in 0 .. MaxBusy}
  ELSE IF d.wel = 1 /\ d.frame = <<199>>
  THEN {[d EXCEPT !.mem = <<>>, !.wel = 0, !.wip = w, !.frame = <<>>] :
          w \in 0 .. MaxBusy}
  ELSE {[d EXCEPT !.frame = <<>>]}

\* What select(), transfer(out) and deselect() do to the device, and the
\* bytes it can answer to transfer(out); `status' says that the transfer is
\* the one of a status read that returns the register.
DevSelect(d) == IF d.kind # "faithful" THEN d ELSE [d EXCEPT !.frame = <<>>]

DevOut(d) == IF chip = "EEPROM" THEN EepromOut(d) ELSE NorOut(d)

DevAnswers(d, out, status) ==
  IF d.kind = "any"
  THEN {b \in DeviceBytes : status /\ b % 2 = 1 => busy < MaxBusy}
  ELSE IF d.kind = "slow" THEN DeviceBytes
  ELSE {DevOut(d)}

\* The device is being read its status register.
StatusFrame(d) ==
  /\ d.frame # <<>>
  /\ IF chip = "EEPROM" THEN EepromOp(d.frame) = 5 ELSE d.frame[1] = 5

DevTransfer(d, out) ==
  IF d.kind # "faithful" THEN d
  ELSE [d EXCEPT !.frame = Append(@, out),
                 !.wip = IF StatusFrame(d) /\ @ > 0 THEN @ - 1 ELSE @]

DevDeselect(d) ==
  IF d.kind # "faithful" THEN {d}
  ELSE IF chip = "EEPROM" THEN EepromDeselect(d) ELSE NorDeselect(d)

StatusReads == {"EEPROM::readStatus", "NOR::readStatusReg1"}

Top == stack[Len(stack)]
ReplaceTop(f) == [stack EXCEPT ![Len(stack)] = f]

\* The driver objects after construction: latch OK, nothing in progress,
\* chip select released.
InitDriver ==
  /\ stack = <<>>
  /\ cs = FALSE
  /\ bus = <<>>
  /\ errorCode = "OK"
  /\ result = 0
  /\ call = NoCall
  /\ outbuf = <<>>
  /\ busy = 0
  /\ latched = "none"
  /\ hist = <<>>

\* A device that may answer any byte, and a caller with no fixed sequence.
AnyBus ==
  /\ dev = AnyDevice
  /\ script = <<>>

InitAlloc ==
  /\ page_table = alloc_init_table
  /\ heap = alloc_init_heap
  /\ last = [op |-> "alloc_init", arg |-> 0, ret |-> NULL]
  /\ live = {}
  /\ n = 0
  /\ done = FALSE

Init ==
  /\ InitAlloc
  /\ mode \in {"explore", "deep_small", "deep_big", "recycle", "first_three"}
  /\ chip = "none"
  /\ InitDriver
  /\ AnyBus

InitFill ==
  /\ InitAlloc
  /\ mode \in {"fill_small", "fill_big", "fill_mixed"}
  /\ chip = "none"
  /\ InitDriver
  /\ AnyBus

Malloc(size) ==
  LET r == custom_malloc(page_table, heap, size)
  IN /\ ~done
     /\ IF Exploring THEN InScope(r.page_table)
        ELSE [op |-> "custom_malloc", arg |-> size] \in ScriptCalls(mode, n, live)
     /\ page_table' = r.page_table
     /\ heap' = r.heap
     /\ last' = [op |-> "custom_malloc", arg |-> size, ret |-> r.ret]
     /\ live' = IF r.ret = NULL THEN live ELSE live \cup {r.ret}
     /\ n' = IF Exploring THEN n ELSE n + 1
     /\ done' = (r.page_table = page_table /\ r.heap = heap)
     /\ UNCHANGED <<mode, chipVars>>

Free(ptr) ==
  LET r == custom_free(page_table, heap, ptr)
  IN /\ ~done
     /\ page_table' = r.page_table
     /\ heap' = r.heap
     /\ last' = [op |-> "custom_free", arg |-> ptr, ret |-> NULL]
     /\ live' = live \ {ptr}
     /\ n' = IF Exploring THEN n ELSE n + 1
     /\ done' = (r.page_table = page_table /\ r.heap = heap)
     /\ UNCHANGED <<mode, chipVars>>

Next ==
  \/ \E size \in Sizes : Malloc(size)
  \/ \E ptr \in FreeArgs : Free(ptr)

Spec == Init /\ [][Next]_vars

NextFill == \E size \in Sizes : Malloc(size)

SpecFill == InitFill /\ [][NextFill]_vars

InitChip ==
  /\ InitAlloc
  /\ mode = "chip"
  /\ chip \in {"EEPROM", "NOR"}
  /\ InitDriver
  /\ AnyBus

\* The caller invokes a public operation on the idle driver.
Invoke(c) ==
  /\ chip # "none"
  /\ stack = <<>>
  /\ call.op = "none"
  /\ stack' = <<Frame(c.op, c.address, c.index, c.value, c.length, c.data)>>
  /\ call' = c
  /\ UNCHANGED <<chip, cs, bus, errorCode, result, outbuf, busy, latched,
                 dev, script, hist, allocVars>>

\* The caller reads the latch after the operation has returned, as main()
\* does after every call; the driver is left as it is, and the record of
\* the finished call (its bus calls, its result, the bytes it stored) ends.
\* A caller running a script keeps what the call gave.
checkError ==
  /\ stack = <<>>
  /\ call.op # "none"
  /\ call' = NoCall
  /\ bus' = <<>>
  /\ outbuf' = <<>>
  /\ busy' = 0
  /\ result' = 0
  /\ latched' = "none"
  /\ hist' = IF script = <<>> THEN hist
             ELSE Append(hist, [call |-> call, error |-> errorCode,
                                result |-> result, outbuf |-> outbuf,
                                mem |-> dev.mem])
  /\ UNCHANGED <<chip, stack, cs, errorCode, dev, script, allocVars>>

select ==
  /\ stack # <<>>
  /\ LET ins == Exec(Top, 0)
     IN /\ ins.k = "select"
        /\ cs' = TRUE
        /\ bus' = IF Traced THEN Append(bus, <<"select">>) ELSE bus
        /\ stack' = ReplaceTop(ins.nf)
        /\ dev' = DevSelect(dev)
  /\ UNCHANGED <<chip, errorCode, result, call, outbuf, busy, latched,
                 script, hist, allocVars>>

deselect ==
  /\ stack # <<>>
  /\ LET ins == Exec(Top, 0)
     IN /\ ins.k = "deselect"
        /\ cs' = FALSE
        /\ bus' = IF Traced THEN Append(bus, <<"deselect">>) ELSE bus
        /\ stack' = ReplaceTop(ins.nf)
        /\ dev' \in DevDeselect(dev)
  /\ UNCHANGED <<chip, errorCode, result, call, outbuf, busy, latched,
                 script, hist, allocVars>>

\* The driver keeps the byte the transfer at frame f returns: it assigns it
\* to a local or to out[i].
IsKept(f) == Exec(f, 0).store \/ Exec(f, 0).nf # Exec(f, 1).nf

\* transfer(out) returns the byte `in' of the device.
transfer(in) ==
  /\ stack # <<>>
  /\ LET ins == Exec(Top, in)
         status == Top.fn \in StatusReads /\ Top.pc = 2
     IN /\ ins.k = "transfer"
        /\ in \in DevAnswers(dev, ins.out, status)
        /\ bus' = IF ~Traced THEN bus
                  ELSE Append(bus, IF IsKept(Top)
                                   THEN <<"transfer", ins.out, in>>
                                   ELSE <<"transfer", ins.out>>)
        /\ stack' = ReplaceTop(ins.nf)
        /\ outbuf' = IF ins.store THEN Append(outbuf, in) ELSE outbuf
        /\ busy' = IF status /\ in % 2 = 1 /\ busy <= MaxBusy
                   THEN busy + 1 ELSE busy
        /\ dev' = DevTransfer(dev, ins.out)
  /\ UNCHANGED <<chip, cs, errorCode, result, call, latched, script, hist,
                 allocVars>>

\* A member function calls another one.
CallMember ==
  /\ stack # <<>>
  /\ LET ins == Exec(Top, 0)
     IN /\ ins.k = "call"
        /\ stack' = Append(ReplaceTop(ins.nf), ins.callee)
  /\ UNCHANGED <<chip, cs, bus, errorCode, result, call, outbuf, busy,
                 latched, dev, script, hist, allocVars>>

\* A member function returns, to its caller or out of the driver.
ReturnMember ==
  /\ stack # <<>>
  /\ LET ins == Exec(Top, 0)
         k == Len(stack)
     IN /\ ins.k = "return"
        /\ errorCode' = IF ins.err = "KEEP" THEN errorCode ELSE ins.err
        /\ latched' = IF ins.err = "KEEP" THEN latched ELSE ins.err
        /\ IF k = 1
           THEN /\ stack' = <<>>
                /\ result' = ins.val
           ELSE /\ stack' = [SubSeq(stack, 1, k - 1)
                               EXCEPT ![k - 1].r = ins.val]
                /\ UNCHANGED result
  /\ UNCHANGED <<chip, cs, bus, call, outbuf, busy, dev, script, hist,
                 allocVars>>

NextChip ==
  \/ \E c \in Calls : Invoke(c)
  \/ select
  \/ deselect
  \/ \E in \in DeviceBytes : transfer(in)
  \/ CallMember
  \/ ReturnMember
  \/ checkError

SpecChip == InitChip /\ [][NextChip]_vars

(***************************************************************************)
(* Properties of the allocator.  The numbers in them are those of the      *)
(* specification (1024-byte pages, 16-byte header, 63 slots of 16 bytes,   *)
(* 5 slots of 192 bytes), not the constants the operators above use.       *)
(***************************************************************************)
\* Bit k of a page header, read as a little-endian bitmap.
HeaderBit(hdr, k) == (hdr[k \div 8] \div Pow2(k % 8)) % 2 = 1

PopCount(hdr, nseg) == Cardinality({k \in 0 .. (nseg - 1) : HeaderBit(hdr, k)})

NSegments(type) == IF type = "PAGE_SMALL" THEN 63 ELSE 5
SlotSize(type) == IF type = "PAGE_SMALL" THEN 16 ELSE 192

\* The pages in use.
UsedPages == {p \in Pages : page_table[p].type # "PAGE_FREE"}

\* Pointers tried against custom_free in every reachable state: around the
\* arena, and in pages 0, 1, 2 and 63 the header, slot boundaries of both
\* classes, addresses next to them, the BIG tail and the last byte.
CheckOffsets == {0, 8, 15, 16, 17, 32, 48, 208, 216, 400, 976, 1008, 1023}
CheckPtrs ==
  {NULL, 1, HeapBase - 1, HeapBase + 65536, HeapBase + 65537}
    \cup {HeapBase + p * 1024 + o : p \in {0, 1, 2, 63}, o \in CheckOffsets}

\* C1: in every reachable state, every SMALL or BIG page has used_segments
\* equal to the number of set bits among the first N_SEGMENTS bits of its
\* header (63 for SMALL, 5 for BIG), and used_segments <= N_SEGMENTS.
C1_UsedIsPopcount ==
  \A p \in Pages :
    page_table[p].type \in {"PAGE_SMALL", "PAGE_BIG"} =>
      /\ page_table[p].used_segments
           = PopCount(heap[p], NSegments(page_table[p].type))
      /\ page_table[p].used_segments <= NSegments(page_table[p].type)

\* A release has left a SMALL page and a BIG page in use, one of them with
\* a hole below its highest used slot.
C1_Witness ==
  /\ last.op = "custom_free"
  /\ ~done
  /\ \E p, q \in UsedPages :
       /\ page_table[p].type = "PAGE_SMALL"
       /\ page_table[q].type = "PAGE_BIG"
       /\ \E k \in 1 .. 4 : HeaderBit(heap[q], k) /\ ~HeaderBit(heap[q], k - 1)

\* C2: in every reachable state, every FREE page has used_segments = 0 and
\* a header of 16 zero bytes.
C2_FreePageIsZero ==
  \A p \in Pages :
    page_table[p].type = "PAGE_FREE" =>
      /\ page_table[p].used_segments = 0
      /\ \A b \in 0 .. 15 : heap[p][b] = 0

\* The release of the last slot of a page has returned it to FREE while
\* another page stays in use.
C2_Witness ==
  /\ last.op = "custom_free"
  /\ ~done
  /\ last.arg >= HeapBase /\ last.arg < HeapBase + 65536
  /\ page_table[(last.arg - HeapBase) \div 1024].type = "PAGE_FREE"
  /\ UsedPages # {}

\* What C3 asks of a call custom_malloc(size) that returned ret and left
\* page table pt and heap hp.
PointerWellFormed(pt, hp, size, ret) ==
  ret # NULL =>
    \E type \in {"PAGE_SMALL", "PAGE_BIG"} :
      /\ type = "PAGE_SMALL" => 1 <= size /\ size <= 15
      /\ type = "PAGE_BIG" => 16 <= size /\ size <= 180
      /\ \E p \in 0 .. 63 : \E k \in 0 .. (NSegments(type) - 1) :
           /\ ret = HeapBase + p * 1024 + 16 + k * SlotSize(type)
           /\ pt[p].type = type
           /\ HeaderBit(hp[p], k)

\* C3: every non-null pointer returned by custom_malloc(size) is
\* heap_base + p*1024 + 16 + k*slot_size for a page p of the class of size
\* and a slot k of it, and bit k of that page is set on return.  Checked on
\* the call that led to each state and on every call that can follow it.
C3_PointerForm ==
  /\ last.op = "custom_malloc" =>
       PointerWellFormed(page_table, heap, last.arg, last.ret)
  /\ \A size \in Sizes :
       LET r == custom_malloc(page_table, heap, size)
       IN PointerWellFormed(r.page_table, r.heap, size, r.ret)

\* A request of 180 bytes has returned the slot of index 1 or more of a
\* BIG page that is not page 0.
C3_Witness ==
  /\ last.op = "custom_malloc"
  /\ last.arg = 180
  /\ \E p \in 1 .. 63 : \E k \in 1 .. 4 :
       last.ret = HeapBase + p * 1024 + 16 + k * 192

\* The pointers C4 lists, in a state with page table pt and heap hp.
ReleaseIgnored(pt, hp, ptr) ==
  \/ ptr = NULL
  \/ ptr < HeapBase
  \/ ptr >= HeapBase + 65536
  \/ LET p == (ptr - HeapBase) \div 1024
         off == (ptr - HeapBase) % 1024
         slot == SlotSize(pt[p].type)
     IN \/ pt[p].used_segments = 0
        \/ off < 16
        \/ (off - 16) % slot # 0
        \/ (off - 16) \div slot >= NSegments(pt[p].type)
        \/ ~HeaderBit(hp[p], (off - 16) \div slot)

\* C4: custom_free(ptr) changes neither the page table nor any header when
\* ptr is null, outside the arena, in a page with used_segments = 0, inside
\* a header, not on a slot boundary of the page's class, in the tail of a
\* BIG page, or names a slot whose bit is clear.
C4_ReleaseNoOp ==
  \A ptr \in CheckPtrs \cup StrayPtrs :
    ReleaseIgnored(page_table, heap, ptr) =>
      LET r == custom_free(page_table, heap, ptr)
      IN r.page_table = page_table /\ r.heap = heap

\* The tail of a BIG page with all five slots used has been released, and
\* nothing changed.
C4_Witness ==
  /\ last.op = "custom_free"
  /\ last.arg = HeapBase + 976
  /\ done
  /\ page_table[0].type = "PAGE_BIG"
  /\ page_table[0].used_segments = 5

\* C5: from every reachable state and for every size, custom_malloc(size)
\* followed by custom_free of the pointer it returned restores the page
\* table and every header.
C5_MallocFreeRestores ==
  \A size \in Sizes :
    LET r == custom_malloc(page_table, heap, size)
        f == custom_free(r.page_table, r.heap, r.ret)
    IN f.page_table = page_table /\ f.heap = heap

\* An allocation has just opened a fresh page while another page is in use,
\* and releasing its pointer gives that page back.
C5_Witness ==
  /\ last.op = "custom_malloc"
  /\ last.ret # NULL
  /\ (last.ret - HeapBase) % 1024 = 16
  /\ page_table[(last.ret - HeapBase) \div 1024].used_segments = 1
  /\ Cardinality(UsedPages) >= 2
  /\ custom_free(page_table, heap, last.ret).page_table[(last.ret - HeapBase) \div 1024].type
       = "PAGE_FREE"

\* Sizes custom_malloc rejects: 0 and sizes above 180.
RejectedSizes == {0, 181, 182, 192, 1024, 65535, 65536}

\* C6: custom_malloc(0) and custom_malloc(size) for size > 180 return null
\* and change neither the page table nor any header, in every state.
C6_RejectedSizes ==
  /\ \A size \in RejectedSizes :
       LET r == custom_malloc(page_table, heap, size)
       IN r.ret = NULL /\ r.page_table = page_table /\ r.heap = heap
  /\ (last.op = "custom_malloc" /\ (last.arg = 0 \/ last.arg > 180)) =>
       last.ret = NULL /\ done

\* A request of 181 bytes has been refused while pages of both classes
\* have free slots.
C6_Witness ==
  /\ last.op = "custom_malloc"
  /\ last.arg = 181
  /\ last.ret = NULL
  /\ \E p, q \in UsedPages :
       page_table[p].type = "PAGE_SMALL" /\ page_table[q].type = "PAGE_BIG"

\* What C7 asks of a workload that only allocates one class, of which
\* `total` slots exist: each of the first `total` calls returns a pointer
\* not returned before, and the call after them returns null.
FillExact(total) ==
  /\ n <= total =>
       /\ Cardinality(live) = n
       /\ n > 0 => last.ret # NULL
       /\ ~done
  /\ n > total => n = total + 1 /\ last.ret = NULL /\ Cardinality(live) = total

\* C7: after alloc_init(), with allocations of one class only and no
\* release, exactly 63*64 = 4032 SMALL calls (5*64 = 320 BIG calls) return
\* non-null, pairwise distinct pointers, and the next call returns null.
C7_Capacity ==
  /\ mode = "fill_small" => FillExact(4032)
  /\ mode = "fill_big" => FillExact(320)

\* The 321st BIG allocation has returned null after 320 distinct pointers.
C7_Witness ==
  /\ mode = "fill_big"
  /\ n = 321
  /\ last.ret = NULL
  /\ Cardinality(live) = 320

\* One step changes the type of page p only from a class to FREE, by a
\* release that takes used_segments from 1 to 0, or from FREE to a class, by
\* an allocation of that class made when no page of the class has a free
\* slot.
TypeStep(p) ==
  page_table'[p].type # page_table[p].type =>
    \/ /\ page_table[p].type \in {"PAGE_SMALL", "PAGE_BIG"}
       /\ page_table'[p].type = "PAGE_FREE"
       /\ last'.op = "custom_free"
       /\ page_table[p].used_segments = 1
       /\ page_table'[p].used_segments = 0
    \/ /\ page_table[p].type = "PAGE_FREE"
       /\ page_table'[p].type = "PAGE_SMALL"
       /\ last'.op = "custom_malloc"
       /\ 1 <= last'.arg /\ last'.arg <= 15
       /\ ~\E q \in Pages : /\ page_table[q].type = "PAGE_SMALL"
                            /\ page_table[q].used_segments < 63
    \/ /\ page_table[p].type = "PAGE_FREE"
       /\ page_table'[p].type = "PAGE_BIG"
       /\ last'.op = "custom_malloc"
       /\ 16 <= last'.arg /\ last'.arg <= 180
       /\ ~\E q \in Pages : /\ page_table[q].type = "PAGE_BIG"
                            /\ page_table[q].used_segments < 5

\* The workload recycle: 63 SMALL allocations fill page 0, their 63
\* releases leave every page FREE, and the BIG allocation that follows
\* lands at page 0, offset 16.
RecycleLanding ==
  mode = "recycle" =>
    /\ n = 63 => page_table[0] = [used_segments |-> 63, type |-> "PAGE_SMALL"]
    /\ n = 126 => \A p \in Pages : page_table[p].type = "PAGE_FREE"
    /\ n = 127 => last.ret = HeapBase + 16 /\ page_table[0].type = "PAGE_BIG"

\* C8: across every step a page's type changes only SMALL->FREE or
\* BIG->FREE by a release that empties it, or FREE->SMALL or FREE->BIG by an
\* allocation of that class when no page of the class has a free slot;
\* never between SMALL and BIG directly; and a page emptied by release is
\* taken by the next allocation of either class.
C8_TypeTransitions == [][(\A p \in Pages : TypeStep(p)) /\ RecycleLanding']_vars

\* Page 0 was filled with 63 SMALL allocations, emptied, and now holds the
\* BIG allocation made next.
C8_Witness ==
  /\ mode = "recycle"
  /\ n = 127
  /\ last.ret = HeapBase + 16
  /\ page_table[0].type = "PAGE_BIG"

\* The pointer C9 names for an allocation of class `type` in the state
\* with page table pt and heap hp.
LowestSlot(pt, hp, type) ==
  LET partial == {p \in Pages : /\ pt[p].type = type
                                /\ pt[p].used_segments < NSegments(type)}
      free == {p \in Pages : pt[p].type = "PAGE_FREE"}
  IN IF partial # {}
     THEN LET p == SetMin(partial)
              k == SetMin({j \in 0 .. (NSegments(type) - 1) : ~HeaderBit(hp[p], j)})
          IN HeapBase + p * 1024 + 16 + k * SlotSize(type)
     ELSE IF free # {} THEN HeapBase + SetMin(free) * 1024 + 16
     ELSE NULL

\* C9: a successful custom_malloc of a class returns the lowest clear slot
\* of the lowest page of that class that has a free slot, even below which
\* a FREE page exists, and the first slot of the lowest FREE page only when
\* no such page exists.  After alloc_init(), custom_malloc(1),
\* custom_malloc(16), custom_malloc(180) return page 0 offset 16, page 1
\* offset 16, page 1 offset 208.
C9_LowestFirst ==
  /\ \A size \in {1, 15, 16, 180} :
       LET r == custom_malloc(page_table, heap, size)
       IN r.ret # NULL =>
            r.ret = LowestSlot(page_table, heap,
                               IF size <= 15 THEN "PAGE_SMALL" ELSE "PAGE_BIG")
  /\ mode = "first_three" =>
       /\ n = 1 => last.ret = HeapBase + 16
       /\ n = 2 => last.ret = HeapBase + 1024 + 16
       /\ n = 3 => last.ret = HeapBase + 1024 + 208

\* An allocation has filled a hole of page 1 while page 0 is FREE.
C9_Witness ==
  /\ last.op = "custom_malloc"
  /\ last.ret # NULL
  /\ page_table[0].type = "PAGE_FREE"
  /\ (last.ret - HeapBase) \div 1024 = 1
  /\ \E k \in 1 .. 62 : HeaderBit(heap[1], k)
  /\ last.ret = HeapBase + 1024 + 16


(***************************************************************************)
(* Properties of the chip drivers.                                         *)
(***************************************************************************)
\* The state of chip select after the bus calls t[k..], started in state a:
\* "violated" if a select() comes while it is asserted or a transfer()
\* while it is released.
RECURSIVE CsWalk(_, _, _)
CsWalk(t, k, a) ==
  IF k > Len(t) \/ a = "violated" THEN a
  ELSE CsWalk(t, k + 1,
         CASE t[k][1] = "select" ->
                IF a = "released" THEN "asserted" ELSE "violated"
           [] t[k][1] = "transfer" ->
                IF a = "asserted" THEN "asserted" ELSE "violated"
           [] t[k][1] = "deselect" -> "released")

\* C10: in both drivers, in every public operation and on every path, no
\* select() is made while chip select is asserted, every transfer() is made
\* while it is asserted (so every select() is followed by a deselect()
\* before the next select()), and chip select is released when the
\* operation has returned.
C10_ChipSelectProtocol ==
  chip # "none" =>
    /\ CsWalk(bus, 1, "released") # "violated"
    /\ cs <=> (CsWalk(bus, 1, "released") = "asserted")
    /\ stack = <<>> => ~cs

\* EEPROM writeArray has returned WRITE_NOT_ENABLED from its second chunk,
\* after the four or more select() calls of its first chunk and two more.
C10_Witness ==
  /\ stack = <<>>
  /\ call.op = "EEPROM::writeArray"
  /\ errorCode = "WRITE_NOT_ENABLED"
  /\ Len(SelectSeq(bus, LAMBDA e : e[1] = "select")) >= 5
  /\ ~cs

ArgumentErrors ==
  {"ADDRESS_OUT_OF_RANGE", "INDEX_BIT_OUT_OF_RANGE", "NULL_POINTER",
   "BAD_ADDRESS_ALIGNMENT", "OUT_OF_PAGE"}

\* C11: whenever the operation in progress or just returned has latched an
\* argument error, it has made no select(), transfer() or deselect(); and
\* EEPROM writeByte(0x200, 0x00) returns with ADDRESS_OUT_OF_RANGE latched
\* and an empty bus trace.
C11_ArgumentErrorNoTraffic ==
  /\ latched \in ArgumentErrors => bus = <<>>
  /\ (/\ chip = "EEPROM"
      /\ stack = <<>>
      /\ call.op = "EEPROM::writeByte"
      /\ call.address = 512
      /\ call.value = 0)
     => (latched = "ADDRESS_OUT_OF_RANGE" /\ errorCode = latched /\ bus = <<>>)

\* NOR pageProgram has returned OUT_OF_PAGE for two bytes at 0x0000FF.
C11_Witness ==
  /\ chip = "NOR"
  /\ stack = <<>>
  /\ call.op = "NOR::pageProgram"
  /\ call.address = U32(0, 255)
  /\ call.length = 2
  /\ ~call.data.null
  /\ errorCode = "OUT_OF_PAGE"
  /\ bus = <<>>

\* The frames of a bus trace: for every select() ... deselect() pair, the
\* transfers between them, in order.
RECURSIVE FramesFrom(_, _, _, _)
FramesFrom(t, k, cur, acc) ==
  IF k > Len(t) THEN acc
  ELSE CASE t[k][1] = "select" -> FramesFrom(t, k + 1, <<>>, acc)
         [] t[k][1] = "transfer" -> FramesFrom(t, k + 1, Append(cur, t[k]), acc)
         [] t[k][1] = "deselect" -> FramesFrom(t, k + 1, <<>>, Append(acc, cur))

Frames(t) == FramesFrom(t, 1, <<>>, <<>>)

\* The bytes a frame sent, and the bytes the driver kept from it.
Sent(frame) == [i \in 1 .. Len(frame) |-> frame[i][2]]
KeptOf(frame) ==
  LET kept == SelectSeq(frame, LAMBDA e : Len(e) = 3)
  IN [i \in 1 .. Len(kept) |-> kept[i][3]]

\* The kinds of frame, by the first byte sent: the program and erase
\* opcodes and the read opcodes of the two devices, as the specification
\* lists them (the EEPROM ones with or without the ninth address bit).
ProgramOpcodes == IF chip = "EEPROM" THEN {2, 10} ELSE {2, 32, 82, 216, 199}
ReadOpcodes == IF chip = "EEPROM" THEN {3, 11} ELSE {3, 11}
IsProgramFrame(frame) == frame # <<>> /\ frame[1][2] \in ProgramOpcodes
IsReadFrame(frame) == frame # <<>> /\ frame[1][2] \in ReadOpcodes
IsStatusFrame(frame) ==
  Len(frame) = 2 /\ frame[1][2] = 5 /\ frame[2][2] = 255 /\ Len(frame[2]) = 3
IsWrenFrame(frame) == Len(frame) = 1 /\ frame[1][2] = 6

FramesOf(t, Kind(_)) == SelectSeq(Frames(t), Kind)

\* The number of data bytes the program frames of a trace carry (after the
\* opcode and the address bytes).
RECURSIVE SumLen(_, _)
SumLen(fs, drop) ==
  IF fs = <<>> THEN 0 ELSE (Len(fs[1]) - drop) + SumLen(Tail(fs), drop)

\* The finished call did what it is for: a read brought its byte or bytes,
\* a write or erase sent its program or erase frame (writeArray: frames
\* with all its bytes); a zero length asks for nothing.
Completed ==
  CASE call.op \in {"EEPROM::readByte", "EEPROM::readBit",
                    "NOR::readByte", "NOR::readBit"} ->
         \E i \in 1 .. Len(Frames(bus)) :
            IsReadFrame(Frames(bus)[i]) /\ Len(KeptOf(Frames(bus)[i])) = 1
    [] call.op \in {"EEPROM::readArray", "NOR::readArray"} ->
         \/ call.length = 0
         \/ /\ Len(Frames(bus)) = 1
            /\ IsReadFrame(Frames(bus)[1])
            /\ KeptOf(Frames(bus)[1]) = outbuf
            /\ Len(outbuf) = call.length
    [] call.op = "EEPROM::writeArray" ->
         SumLen(FramesOf(bus, IsProgramFrame), 2) = call.length
    [] call.op = "NOR::pageProgram" ->
         \/ call.length = 0
         \/ /\ Len(FramesOf(bus, IsProgramFrame)) = 1
            /\ SumLen(FramesOf(bus, IsProgramFrame), 4) = call.length
    [] OTHER -> Len(FramesOf(bus, IsProgramFrame)) = 1

LatchKinds ==
  {"OK", "ADDRESS_OUT_OF_RANGE", "BAD_ADDRESS_ALIGNMENT",
   "INDEX_BIT_OUT_OF_RANGE", "WRITE_NOT_ENABLED", "NULL_POINTER",
   "OUT_OF_PAGE", "NEEDS_ERASE"}

\* The member function at frame f is about to read _errorCode.
ReadsLatch(f) == f.fn = "NOR::isProgramCompatible" /\ f.pc = 1

\* C12: when a public operation other than readStatus()/readStatusReg1()
\* has returned, it has assigned the latch, so what checkError() gives is a
\* value of this call: OK exactly if the call completed, a non-OK kind
\* otherwise; and the latch is never read during a call before that call
\* has assigned it, so the value does not depend on the latch before.
C12_LatchAssigned ==
  /\ (stack = <<>> /\ call.op \notin {"none"} \cup StatusReads)
       => /\ latched \in LatchKinds
          /\ errorCode = latched
          /\ (latched = "OK") <=> Completed
  /\ (stack # <<>> /\ ReadsLatch(Top)) => latched # "none"
  /\ (stack = <<>> /\ call.op \in StatusReads)
       => latched = "none" /\ errorCode \in LatchKinds

\* NOR pageProgram has returned NEEDS_ERASE, the path that reads the latch
\* after its readByte, and has sent no program frame.
C12_Witness ==
  /\ chip = "NOR"
  /\ stack = <<>>
  /\ call.op = "NOR::pageProgram"
  /\ latched = "NEEDS_ERASE"
  /\ errorCode = "NEEDS_ERASE"
  /\ FramesOf(bus, IsReadFrame) # <<>>
  /\ FramesOf(bus, IsProgramFrame) = <<>>

\* The operations that program or erase, as C13 lists them.
ProgramOps ==
  {"NOR::pageProgram", "NOR::eraseSector", "NOR::eraseBlock32",
   "NOR::eraseBlock64", "NOR::eraseChip", "EEPROM::writeByte",
   "EEPROM::writeArray"}

\* A program or erase has returned after passing its argument checks.
PassedChecks ==
  /\ stack = <<>>
  /\ call.op \in ProgramOps
  /\ latched \notin ArgumentErrors
  /\ call.op \in {"EEPROM::writeArray", "NOR::pageProgram"} => call.length > 0

\* The WEL bit of the register a status frame returned.
WelOf(frame) == (frame[2][3] \div 2) % 2

\* C13 as stated: a program or erase that has passed its argument checks
\* has a write-enable frame as its first frame and a status read as its
\* second.
C13_Original ==
  PassedChecks =>
    /\ Len(Frames(bus)) >= 2
    /\ IsWrenFrame(Frames(bus)[1])
    /\ IsStatusFrame(Frames(bus)[2])

\* C13, amended: NOR pageProgram first reads its destination bytes (one
\* READ frame each) and stops there with NEEDS_ERASE if they do not admit
\* the data; apart from these reads, a program or erase that has passed its
\* argument checks starts with a frame of the single byte 0x06 and then a
\* status read; every program or erase frame comes right after such a pair
\* whose status had WEL set; and after a pair whose status had WEL clear
\* there is no bus traffic at all, and the operation returns
\* WRITE_NOT_ENABLED.
C13_WriteEnableFirst ==
  LET F == Frames(bus)
      g == IF call.op = "NOR::pageProgram" THEN call.length ELSE 0
  IN /\ PassedChecks =>
          \/ /\ call.op = "NOR::pageProgram"
             /\ latched = "NEEDS_ERASE"
             /\ Len(F) \in 1 .. g
             /\ \A i \in 1 .. Len(F) : IsReadFrame(F[i])
          \/ /\ Len(F) >= g + 2
             /\ \A i \in 1 .. g : IsReadFrame(F[i])
             /\ IsWrenFrame(F[g + 1])
             /\ IsStatusFrame(F[g + 2])
     /\ \A i \in 1 .. Len(F) :
          IsProgramFrame(F[i]) =>
            /\ i >= 3
            /\ IsWrenFrame(F[i - 2])
            /\ IsStatusFrame(F[i - 1])
            /\ WelOf(F[i - 1]) = 1
     /\ \A i \in 2 .. Len(F) :
          (IsWrenFrame(F[i - 1]) /\ IsStatusFrame(F[i]) /\ WelOf(F[i]) = 0) =>
            /\ i = Len(F)
            /\ bus[Len(bus)][1] = "deselect"
            /\ stack = <<>> => latched = "WRITE_NOT_ENABLED"

\* NOR pageProgram has returned WRITE_NOT_ENABLED: its first frame is a
\* READ of the gate, its last the status read that showed WEL clear.
C13_Witness ==
  /\ chip = "NOR"
  /\ PassedChecks
  /\ call.op = "NOR::pageProgram"
  /\ latched = "WRITE_NOT_ENABLED"
  /\ IsReadFrame(Frames(bus)[1])
  /\ IsWrenFrame(Frames(bus)[Len(Frames(bus)) - 1])
  /\ IsStatusFrame(Frames(bus)[Len(Frames(bus))])
  /\ WelOf(Frames(bus)[Len(Frames(bus))]) = 0

\* The busy bit (WIP/BUSY, bit 0) of the register a status frame returned.
BusyOf(frame) == frame[2][3] % 2

\* Frame j of F is a status read of the wait that follows a program or
\* erase frame: only status reads lie between that frame and it.
InWait(F, j) ==
  \E i \in 1 .. j - 1 :
     /\ IsProgramFrame(F[i])
     /\ \A k \in i + 1 .. j : IsStatusFrame(F[k])

\* The bus events after the last deselect: the frame still open, if any.
RECURSIVE OpenFrame(_)
OpenFrame(t) ==
  IF t = <<>> \/ t[Len(t)][1] = "deselect" THEN <<>>
  ELSE Append(OpenFrame(SubSeq(t, 1, Len(t) - 1)), t[Len(t)])

\* What follows frame j of the trace is nothing yet, or a status read (one
\* finished, or one being sent), with the call still running.
OnlyStatusAfter(F, j) ==
  IF j < Len(F) THEN IsStatusFrame(F[j + 1])
  ELSE /\ stack # <<>>
       /\ \A e \in 1 .. Len(OpenFrame(bus)) :
            OpenFrame(bus)[e][1] = "transfer" =>
              OpenFrame(bus)[e][2] \in {5, 255}

\* C14: after each program or erase frame the driver reads the status
\* register, and keeps reading it while bit 0 is set: a program or erase
\* frame, and a status read of the wait that reported busy, are followed by
\* a status read and by nothing else; so an operation that returns, or
\* starts its next chunk, does it after a status read with bit 0 clear.
C14_WaitNotBusy ==
  LET F == Frames(bus)
  IN /\ \A i \in 1 .. Len(F) :
          IsProgramFrame(F[i]) => OnlyStatusAfter(F, i)
     /\ \A j \in 1 .. Len(F) :
          (InWait(F, j) /\ BusyOf(F[j]) = 1) => OnlyStatusAfter(F, j)
     /\ (stack = <<>> /\ latched = "OK" /\ F # <<>>
           /\ call.op \in ProgramOps \cup {"EEPROM::writeBit"}) =>
          /\ InWait(F, Len(F))
          /\ BusyOf(F[Len(F)]) = 0

\* EEPROM writeArray has returned OK after two chunks, and one of its waits
\* saw the device busy before it saw it ready.
C14_Witness ==
  /\ chip = "EEPROM"
  /\ stack = <<>>
  /\ call.op = "EEPROM::writeArray"
  /\ latched = "OK"
  /\ Len(FramesOf(bus, IsProgramFrame)) = 2
  /\ \E j \in 1 .. Len(Frames(bus)) :
       InWait(Frames(bus), j) /\ BusyOf(Frames(bus)[j]) = 1

\* addr + len - 1 exceeds MAX_ADDR, the sum taken as an unbounded integer
\* (on the 16-bit halves of addr, len >= 1).
ExceedsMaxAddr(a, len) ==
  \/ a.hi > NOR_MAX_ADDR.hi
  \/ a.hi = NOR_MAX_ADDR.hi /\ a.lo + len - 1 > NOR_MAX_ADDR.lo

\* The same comparison as the 32-bit unsigned arithmetic of the driver
\* makes it.
ExceedsMaxAddr32(a, len) == U32Gt(U32Add(a, len - 1), NOR_MAX_ADDR)

\* The gate of a finished pageProgram failed: a destination byte it read
\* has a bit clear that the data has set.
GateFailed ==
  LET reads == FramesOf(bus, IsReadFrame)
  IN \E i \in 1 .. Len(reads) :
        BitAnd(KeptOf(reads[i])[1], DataAt(call.data, i - 1))
          # DataAt(call.data, i - 1)

\* The write-enable of a finished pageProgram failed: the status read after
\* the write-enable frame had WEL clear.
WriteEnableFailed ==
  \E i \in 2 .. Len(Frames(bus)) :
     /\ IsWrenFrame(Frames(bus)[i - 1])
     /\ IsStatusFrame(Frames(bus)[i])
     /\ WelOf(Frames(bus)[i]) = 0

\* The error a pageProgram with len >= 1 latches by the precedence of C15,
\* its first condition decided by Exceeds.
PageProgramError(Exceeds(_, _)) ==
  IF Exceeds(call.address, call.length) \/ call.length > 256
  THEN "ADDRESS_OUT_OF_RANGE"
  ELSE IF (call.address.lo % 256) + call.length > 256 THEN "OUT_OF_PAGE"
  ELSE IF call.data.null THEN "NULL_POINTER"
  ELSE IF GateFailed THEN "NEEDS_ERASE"
  ELSE IF WriteEnableFailed THEN "WRITE_NOT_ENABLED"
  ELSE "OK"

PageProgramReturned ==
  /\ chip = "NOR"
  /\ stack = <<>>
  /\ call.op = "NOR::pageProgram"
  /\ call.length >= 1

\* C15: NOR pageProgram with len >= 1 latches the error of the first
\* condition that holds, in the order range, page, null, gate,
\* write-enable, for every 32-bit addr, addr + len - 1 being the sum of the
\* two numbers.
C15_Precedence ==
  PageProgramReturned => latched = PageProgramError(ExceedsMaxAddr)

\* The same precedence with addr + len - 1 reduced modulo 2^32, as the
\* driver computes it.
C15_PrecedenceModulo ==
  PageProgramReturned => latched = PageProgramError(ExceedsMaxAddr32)

\* pageProgram(0xFFFFFFFF, data, 2) has returned OUT_OF_PAGE.
C15_Wrapped ==
  /\ PageProgramReturned
  /\ call.address = U32(65535, 65535)
  /\ call.length = 2
  /\ latched = "OUT_OF_PAGE"

\* The erases with an address, the opcode and the size of each as C17
\* states them.
AddressedErases == {"NOR::eraseSector", "NOR::eraseBlock32", "NOR::eraseBlock64"}

EraseOpcodeOf(op) ==
  CASE op = "NOR::eraseSector" -> 32
    [] op = "NOR::eraseBlock32" -> 82
    [] op = "NOR::eraseBlock64" -> 216

EraseSizeOf(op) ==
  CASE op = "NOR::eraseSector" -> 4096
    [] op = "NOR::eraseBlock32" -> 32768
    [] op = "NOR::eraseBlock64" -> 65536

\* a is a multiple of size, a power of two up to 65536.
IsMultiple(a, size) == IF size = 65536 THEN a.lo = 0 ELSE a.lo % size = 0

\* The erase frame of address a: the opcode, then bits 23..16, 15..8, 7..0.
EraseFrame(op, a) ==
  <<EraseOpcodeOf(op), a.hi % 256, a.lo \div 256, a.lo % 256>>

\* C17: a finished eraseSector, eraseBlock32 or eraseBlock64 has latched
\* ADDRESS_OUT_OF_RANGE without traffic if addr > MAX_ADDR, aligned or not;
\* else BAD_ADDRESS_ALIGNMENT without traffic if addr is no multiple of
\* 4096, 32768 or 65536; else, the device having granted WEL, it has sent
\* one frame 0x20 / 0x52 / 0xD8 with the three address bytes, high byte
\* first, and latched OK.
C17_EraseChecks ==
  (chip = "NOR" /\ stack = <<>> /\ call.op \in AddressedErases) =>
    IF call.address.hi > 255
    THEN latched = "ADDRESS_OUT_OF_RANGE" /\ bus = <<>>
    ELSE IF ~IsMultiple(call.address, EraseSizeOf(call.op))
    THEN latched = "BAD_ADDRESS_ALIGNMENT" /\ bus = <<>>
    ELSE IF WriteEnableFailed THEN latched = "WRITE_NOT_ENABLED"
    ELSE /\ latched = "OK"
         /\ Len(Frames(bus)) >= 3
         /\ Sent(Frames(bus)[3]) = EraseFrame(call.op, call.address)
         /\ Len(FramesOf(bus, IsProgramFrame)) = 1

\* eraseBlock32(0x008000) has returned OK after the frame 0x52 0x00 0x80
\* 0x00.
C17_Witness ==
  /\ chip = "NOR"
  /\ stack = <<>>
  /\ call.op = "NOR::eraseBlock32"
  /\ call.address = U32(0, 32768)
  /\ latched = "OK"
  /\ \E i \in 1 .. Len(Frames(bus)) : Sent(Frames(bus)[i]) = <<82, 0, 128, 0>>

(***************************************************************************)
(* A caller that runs a fixed sequence of calls, as main() does, against   *)
(* the faithful device.  `hist' starts with the record of the state after  *)
(* construction, so that hist[k + 1] is the record after the k-th call     *)
(* and the next call is script[Len(hist)].                                 *)
(***************************************************************************)
Pat(p) == [null |-> FALSE, pat |-> p]

\* The value an initially programmed cell holds (never the erased 0xFF).
MarkOf(x) == (x + 3 * (x \div 256) + 1) % 251

Marked(cells) == [x \in cells |-> MarkOf(x)]

\* A NOR address of the device as a number.
NorNumber(a) == a.hi * 65536 + a.lo

TwoPages == EEPROM_PAGE_SIZE + 2

EepromCells == {0, 15, 239, 255, 256, 511}
EepromMems == {<<>>, Marked({0, 1, 15, 16, 240, 255, 256, 257, 511})}

NorCells == {U32(0, 0), U32(0, 255), U32(0, 16384)}
NorMems == {<<>>, Marked({0, 1, 255, 256, 16384, 32767, 32768, 32769, 65535, 65536})}

\* A call that fails or one that succeeds, then a call of length zero with
\* any address and any buffer.
EepromZeroScripts ==
  {<<Call("EEPROM::readBit", 0, x, 0, 0, NoData),
     Call(op, a, 0, 0, 0, d)>> :
     x \in {0, 8}, op \in {"EEPROM::readArray", "EEPROM::writeArray"},
     a \in EepromAddresses, d \in InBuffers}

NorZeroScripts ==
  {<<Call("NOR::readByte", b, 0, 0, 0, NoData),
     Call(op, a, 0, 0, 0, d)>> :
     b \in {U32(0, 0), U32(256, 0)},
     op \in {"NOR::readArray", "NOR::pageProgram"},
     a \in NorAddresses, d \in InBuffers}

EepromScripts ==
  {<<Call("EEPROM::writeByte", a, 0, v, 0, NoData),
     Call("EEPROM::readByte", a, 0, 0, 0, NoData)>> :
     a \in EepromCells, v \in ByteValues}
  \cup
  {<<Call("EEPROM::writeArray", s[1], 0, 0, s[2], Pat(s[3])),
     Call("EEPROM::readArray", s[1], 0, 0, s[2], Pat("out"))>> :
     s \in {t \in EepromCells \X ((1 .. MaxLength) \cup {TwoPages})
                    \X {"ramp", "zeros"} :
              t[1] + t[2] - 1 <= EEPROM_MAX_ADDR}}
  \cup EepromZeroScripts

NorScripts ==
  {<<Call("NOR::pageProgram", s[1], 0, 0, s[2], Pat(s[3])),
     Call("NOR::pageProgram", s[1], 0, 0, s[2], Pat(s[4]))>> :
     s \in {t \in NorCells \X (1 .. MaxLength)
                    \X {"zeros", "ones", "ramp"} \X {"zeros", "ones", "ramp"} :
              (t[1].lo % 256) + t[2] <= 256}}
  \cup
  {<<Call("NOR::eraseBlock32", U32(0, 16384), 0, 0, 0, NoData),
     Call("NOR::eraseBlock32", U32(0, 16385), 0, 0, 0, NoData),
     Call("NOR::eraseBlock32", U32(0, 32768), 0, 0, 0, NoData)>>}
  \cup
  {<<Call("NOR::pageProgram", U32(0, 32768), 0, 0, 2, Pat("zeros")),
     Call("NOR::eraseBlock32", a, 0, 0, 0, NoData),
     Call("NOR::pageProgram", U32(0, 32768), 0, 0, 2, Pat("ones"))>> :
     a \in {U32(0, 16384), U32(0, 16385), U32(0, 32768)}}
  \cup NorZeroScripts

InitDevice ==
  /\ InitAlloc
  /\ mode = "chip"
  /\ chip \in {"EEPROM", "NOR"}
  /\ stack = <<>>
  /\ cs = FALSE
  /\ bus = <<>>
  /\ errorCode = "OK"
  /\ result = 0
  /\ call = NoCall
  /\ outbuf = <<>>
  /\ busy = 0
  /\ latched = "none"
  /\ script \in (IF chip = "EEPROM" THEN EepromScripts ELSE NorScripts)
  /\ dev \in {[FaithfulDevice EXCEPT !.mem = m] :
                m \in (IF chip = "EEPROM" THEN EepromMems ELSE NorMems)}
  /\ hist = <<[call |-> NoCall, error |-> errorCode, result |-> result,
               outbuf |-> outbuf, mem |-> dev.mem]>>

NextDevice ==
  \/ Len(hist) <= Len(script) /\ Invoke(script[Len(hist)])
  \/ select
  \/ deselect
  \/ \E in \in {DevOut(dev)} : transfer(in)
  \/ CallMember
  \/ ReturnMember
  \/ checkError

SpecDevice == InitDevice /\ [][NextDevice]_vars

\* The k-th call of the script has returned and its latch is not yet read.
Returned(k) == stack = <<>> /\ call.op # "none" /\ Len(hist) = k

\* The byte at offset i of the destination of the running pageProgram
\* before the call, and the byte the call asks to program there.
OldByte(i) == MemAt(hist[Len(hist)].mem, NorNumber(call.address) + i)
NewByte(i) == DataAt(call.data, i)

\* Some destination byte has a bit clear that the data has set.
Incompatible ==
  \E i \in 0 .. call.length - 1 : BitAnd(OldByte(i), NewByte(i)) # NewByte(i)

AllErased == \A i \in 0 .. call.length - 1 : OldByte(i) = 255

\* C16: a pageProgram that passes its range, page and null checks, against
\* the faithful device: it latches NEEDS_ERASE exactly when some
\* destination byte fails (old & new) == new, and then has sent no
\* write-enable and no program frame and the device holds what it held;
\* otherwise it latches OK and the destination holds the data, so it
\* succeeds when every destination byte was 0xFF; and after a program of
\* zeros a second program of the same range with data[0] = 0xFF or 0x01
\* latches NEEDS_ERASE.
C16_ProgramCompatibility ==
  (chip = "NOR" /\ stack = <<>> /\ call.op = "NOR::pageProgram") =>
    /\ (latched = "NEEDS_ERASE") <=> Incompatible
    /\ Incompatible =>
         /\ FramesOf(bus, IsWrenFrame) = <<>>
         /\ FramesOf(bus, IsProgramFrame) = <<>>
         /\ dev.mem = hist[Len(hist)].mem
    /\ ~Incompatible =>
         /\ latched = "OK"
         /\ \A i \in 0 .. call.length - 1 :
              MemAt(dev.mem, NorNumber(call.address) + i) = NewByte(i)
    /\ AllErased => latched = "OK"
    /\ (/\ Len(hist) = 2
        /\ script[1].op = "NOR::pageProgram"
        /\ script[1].data = Pat("zeros")
        /\ script[1].address = call.address
        /\ NewByte(0) \in {255, 1}) => latched = "NEEDS_ERASE"

\* A page was erased, zeros were programmed into it, and the replay with
\* data[0] = 0x01 has returned NEEDS_ERASE without changing the device.
C16_Witness ==
  /\ chip = "NOR"
  /\ Returned(2)
  /\ call.op = "NOR::pageProgram"
  /\ hist[1].mem = <<>>
  /\ hist[2].call.data = Pat("zeros")
  /\ hist[2].error = "OK"
  /\ NewByte(0) = 1
  /\ latched = "NEEDS_ERASE"
  /\ dev.mem = hist[2].mem

Block32Returned ==
  chip = "NOR" /\ stack = <<>> /\ call.op = "NOR::eraseBlock32"

\* C18 as stated: against a device that grants WEL and ends its busy time,
\* eraseBlock32(0x004000) latches OK and eraseBlock32(0x004001) latches
\* BAD_ADDRESS_ALIGNMENT.
C18_Original ==
  Block32Returned =>
    /\ call.address = U32(0, 16384) => latched = "OK"
    /\ call.address = U32(0, 16385) => latched = "BAD_ADDRESS_ALIGNMENT"

\* C18, amended: 0x004000 is a multiple of 16 KiB, not of the 32 KiB block:
\* eraseBlock32(0x004000) and eraseBlock32(0x004001) latch
\* BAD_ADDRESS_ALIGNMENT, send nothing and leave the device as it was;
\* eraseBlock32(0x008000) sends 0x52 0x00 0x80 0x00, latches OK, and the
\* device has the block 0x008000..0x00FFFF erased and the rest unchanged.
C18_EraseBlock32 ==
  Block32Returned =>
    /\ call.address \in {U32(0, 16384), U32(0, 16385)} =>
         /\ latched = "BAD_ADDRESS_ALIGNMENT"
         /\ bus = <<>>
         /\ dev.mem = hist[Len(hist)].mem
    /\ call.address = U32(0, 32768) =>
         /\ latched = "OK"
         /\ \E i \in 1 .. Len(Frames(bus)) :
              Sent(Frames(bus)[i]) = <<82, 0, 128, 0>>
         /\ \A x \in DOMAIN hist[Len(hist)].mem \cup DOMAIN dev.mem :
              MemAt(dev.mem, x) =
                IF x \in 32768 .. 65535 THEN 255
                ELSE MemAt(hist[Len(hist)].mem, x)

\* eraseBlock32(0x004000) has been refused for its alignment, and
\* eraseBlock32(0x008000) has then erased a block that held data.
C18_Witness ==
  /\ Block32Returned
  /\ Len(hist) = 3
  /\ hist[2].call.address = U32(0, 16384)
  /\ hist[2].error = "BAD_ADDRESS_ALIGNMENT"
  /\ call.address = U32(0, 32768)
  /\ latched = "OK"
  /\ MemAt(hist[3].mem, 32768) # 255
  /\ MemAt(dev.mem, 32768) = 255

\* The cells of the EEPROM.
EepromRange == 0 .. 511

\* C19: against the faithful EEPROM, writeArray(addr, len, data) with
\* len >= 1 and addr + len - 1 <= 0x1FF latches OK and leaves data[i] at
\* addr + i and every byte outside [addr, addr + len) as it was; the
\* readArray(addr, len, out) that follows latches OK and stores out[i] =
\* data[i], across 16-byte page boundaries and across 0x0FF/0x100.
C19_ArrayRoundTrip ==
  /\ (chip = "EEPROM" /\ stack = <<>> /\ call.op = "EEPROM::writeArray") =>
       /\ latched = "OK"
       /\ \A x \in EepromRange :
            MemAt(dev.mem, x) =
              IF x \in call.address .. call.address + call.length - 1
              THEN DataAt(call.data, x - call.address)
              ELSE MemAt(hist[Len(hist)].mem, x)
  /\ (/\ chip = "EEPROM"
      /\ stack = <<>>
      /\ call.op = "EEPROM::readArray"
      /\ call.length >= 1) =>
       /\ hist[Len(hist)].call.op = "EEPROM::writeArray"
       /\ hist[Len(hist)].call.address = call.address
       /\ hist[Len(hist)].call.length = call.length
       /\ hist[Len(hist)].error = "OK"
       /\ latched = "OK"
       /\ outbuf = [i \in 1 .. call.length |->
                      DataAt(hist[Len(hist)].call.data, i - 1)]
       /\ dev.mem = hist[Len(hist)].mem

\* Eighteen bytes 1, 2, ... written at 0x0EF over programmed cells have
\* been read back: the range crosses the pages at 0x0F0 and at 0x100, where
\* the ninth address bit changes.
C19_Witness ==
  /\ chip = "EEPROM"
  /\ Returned(2)
  /\ call.op = "EEPROM::readArray"
  /\ call.address = 239
  /\ call.length = 18
  /\ hist[1].mem # <<>>
  /\ hist[2].call.data = Pat("ramp")
  /\ latched = "OK"
  /\ outbuf[1] = 1
  /\ outbuf[18] = 18

\* C20: against the faithful EEPROM, which takes bit 3 of the command byte
\* as the ninth address bit, writeByte(addr, val) latches OK and changes
\* the byte at addr and no other (not the one at addr XOR 0x100), and the
\* readByte(addr) that follows returns val and latches OK.
C20_ByteRoundTrip ==
  /\ (chip = "EEPROM" /\ stack = <<>> /\ call.op = "EEPROM::writeByte") =>
       /\ latched = "OK"
       /\ \A x \in EepromRange :
            MemAt(dev.mem, x) =
              IF x = call.address THEN call.value
              ELSE MemAt(hist[Len(hist)].mem, x)
  /\ (chip = "EEPROM" /\ stack = <<>> /\ call.op = "EEPROM::readByte") =>
       /\ hist[Len(hist)].call.op = "EEPROM::writeByte"
       /\ hist[Len(hist)].call.address = call.address
       /\ hist[Len(hist)].error = "OK"
       /\ latched = "OK"
       /\ result = hist[Len(hist)].call.value
       /\ dev.mem = hist[Len(hist)].mem

\* 0xA5 written at 0x100 has been read back, while 0x000, which held
\* another value, still holds it.
C20_Witness ==
  /\ chip = "EEPROM"
  /\ Returned(2)
  /\ call.op = "EEPROM::readByte"
  /\ call.address = 256
  /\ latched = "OK"
  /\ result = 165
  /\ hist[1].mem # <<>>
  /\ MemAt(dev.mem, 0) = MemAt(hist[1].mem, 0)
  /\ MemAt(dev.mem, 0) # 165

ReadArrayReturned ==
  /\ chip = "NOR"
  /\ stack = <<>>
  /\ call.op = "NOR::readArray"
  /\ call.length >= 1
  /\ ~call.data.null

\* C21: NOR readArray with len >= 1 and a non-null buffer latches
\* ADDRESS_OUT_OF_RANGE and sends nothing whenever addr + len - 1, the sum
\* of the two numbers, exceeds 0xFFFFFF, also when it exceeds 2^32 - 1.
C21_ReadArrayRange ==
  (ReadArrayReturned /\ ExceedsMaxAddr(call.address, call.length)) =>
    latched = "ADDRESS_OUT_OF_RANGE" /\ bus = <<>>

\* The same with addr + len - 1 reduced modulo 2^32, as the driver
\* computes it.
C21_ReadArrayRangeModulo ==
  ReadArrayReturned =>
    IF ExceedsMaxAddr32(call.address, call.length)
    THEN latched = "ADDRESS_OUT_OF_RANGE" /\ bus = <<>>
    ELSE latched = "OK" /\ bus # <<>>

\* readArray(0xFFFFFFFF, 2, out) has returned OK after a FAST_READ frame
\* at address 0xFFFFFF that stored two bytes.
C21_Wrapped ==
  /\ ReadArrayReturned
  /\ call.address = U32(65535, 65535)
  /\ call.length = 2
  /\ latched = "OK"
  /\ Len(outbuf) = 2
  /\ Len(Frames(bus)) = 1
  /\ SubSeq(Sent(Frames(bus)[1]), 1, 4) = <<11, 255, 255, 255>>

\* The operations that take a length.
LengthOps ==
  {"EEPROM::readArray", "EEPROM::writeArray", "NOR::readArray",
   "NOR::pageProgram"}

ZeroLengthReturned ==
  stack = <<>> /\ call.op \in LengthOps /\ call.length = 0

\* C22: readArray, writeArray and pageProgram called with length 0 latch
\* OK without select(), transfer() or deselect(), whatever the address
\* (also beyond MAX_ADDR), the buffer (also null) and the latch before the
\* call; the device is left as it was.
C22_ZeroLength ==
  ZeroLengthReturned =>
    /\ latched = "OK"
    /\ errorCode = "OK"
    /\ bus = <<>>
    /\ cs = FALSE
    /\ outbuf = <<>>
    /\ dev = [FaithfulDevice EXCEPT !.mem = hist[Len(hist)].mem]

\* NOR pageProgram(0xFFFFFFFF, null, 0) has returned OK after a call that
\* left ADDRESS_OUT_OF_RANGE in the latch.
C22_Witness ==
  /\ chip = "NOR"
  /\ ZeroLengthReturned
  /\ call.op = "NOR::pageProgram"
  /\ call.address = U32(65535, 65535)
  /\ call.data.null
  /\ hist[Len(hist)].error = "ADDRESS_OUT_OF_RANGE"
  /\ latched = "OK"

(***************************************************************************)
(* The write and erase operations against the slow device.  The driver,    *)
(* once called, runs on (weak fairness of its steps); the bus is assumed   *)
(* to answer, again and again, a status read with bit 0 clear (strong      *)
(* fairness of that answer: it is possible at every status read).          *)
(***************************************************************************)
PollCalls == {c \in Calls : c.op \in ProgramOps \cup {"EEPROM::writeBit"}}

InitPoll ==
  /\ InitAlloc
  /\ mode = "chip"
  /\ chip \in {"EEPROM", "NOR"}
  /\ InitDriver
  /\ dev = SlowDevice
  /\ script = <<>>

\* One step of the driver's code.
Run ==
  \/ select
  \/ deselect
  \/ \E in \in DeviceBytes : transfer(in)
  \/ CallMember
  \/ ReturnMember

\* The device answers a status read with bit 0 (WIP/BUSY) clear.
NotBusyAnswer ==
  /\ stack # <<>>
  /\ Top.fn \in StatusReads
  /\ Top.pc = 2
  /\ \E in \in {b \in DeviceBytes : b % 2 = 0} : transfer(in)

\* (Every step of the driver changes `stack'.)
BusAssumption == SF_stack(NotBusyAnswer)

NextPoll ==
  \/ \E c \in PollCalls : Invoke(c)
  \/ Run
  \/ checkError

SpecPoll == InitPoll /\ [][NextPoll]_vars /\ WF_stack(Run) /\ BusAssumption

\* wait() is running, or the status read it has called.
Waits == {"EEPROM::wait", "NOR::wait"}
Polling == \E i \in 1 .. Len(stack) : stack[i].fn \in Waits

\* C23: under the assumption on the bus, a write or erase operation that
\* has been called returns; wait() is left only after a status read with
\* bit 0 clear, so that with a status that is busy for ever the operation
\* does not return; and while wait() runs the latch is not assigned: no
\* error is latched for a device that stays busy.
C23_ReturnsIfNotBusy ==
  /\ (stack # <<>>) ~> (stack = <<>>)
  /\ [][(Polling /\ ~Polling') =>
          (Top.fn \in Waits /\ Top.pc = 1 /\ Top.r % 2 = 0)]_stack
  /\ [][Polling => (latched' = latched /\ errorCode' = errorCode)]_stack

\* An operation has returned OK after its wait saw the device busy more
\* often than the bounded device is ever busy.
C23_Witness ==
  /\ dev = SlowDevice
  /\ stack = <<>>
  /\ call.op \in ProgramOps
  /\ latched = "OK"
  /\ busy = MaxBusy + 1

\* The same operations without the assumption on the bus: the device may
\* answer busy for ever, and then C23_Returns does not hold (wait() polls
\* without end).
SpecPollUnassumed == InitPoll /\ [][NextPoll]_vars /\ WF_stack(Run)

C23_Returns == (stack # <<>>) ~> (stack = <<>>)

\* The WRITE frames C24 describes for writeArray(start, remaining, data),
\* data being sent from index offset on: each frame is the command byte
\* 0x02 with the ninth bit of its own start address in bit 3, the low
\* address byte, and the bytes up to the end of the 16-byte page.
RECURSIVE ExpectedWrites(_, _, _, _)
ExpectedWrites(start, remaining, offset, data) ==
  IF remaining = 0 THEN <<>>
  ELSE LET room == 16 - (start % 16)
           count == IF room < remaining THEN room ELSE remaining
           cmd == 2 + 8 * ((start \div 256) % 2)
       IN <<(<<cmd, start % 256>>
               \o [j \in 1 .. count |-> DataAt(data, offset + j - 1)])>>
            \o ExpectedWrites(start + count, remaining - count,
                              offset + count, data)

WritesSent == FramesOf(bus, IsProgramFrame)

\* C24: the WRITE frames a valid EEPROM writeArray has sent are the first
\* of the frames C24 describes, byte for byte, and all of them when it has
\* returned OK; each lies inside one 16-byte page.
C24_WriteFrames ==
  (chip = "EEPROM" /\ call.op = "EEPROM::writeArray"
     /\ call.address + call.length - 1 <= 511 /\ ~call.data.null) =>
    LET expected ==
          ExpectedWrites(call.address, call.length, 0, call.data)
    IN /\ Len(WritesSent) <= Len(expected)
       /\ \A k \in 1 .. Len(WritesSent) :
            /\ Sent(WritesSent[k]) = expected[k]
            /\ Len(WritesSent[k]) - 2 <= 16 - (WritesSent[k][2][2] % 16)
       /\ (stack = <<>> /\ latched = "OK") =>
            Len(WritesSent) = Len(expected)

\* writeArray(0x000E, 4, [1, 2, 3, 4]) has returned OK after exactly two
\* write frames, [1, 2] at 0x000E and [3, 4] at 0x0010.
C24_Witness ==
  /\ chip = "EEPROM"
  /\ stack = <<>>
  /\ call.op = "EEPROM::writeArray"
  /\ call.address = 14
  /\ call.length = 4
  /\ latched = "OK"
  /\ Len(WritesSent) = 2
  /\ Sent(WritesSent[1]) = <<2, 14, 1, 2>>
  /\ Sent(WritesSent[2]) = <<2, 16, 3, 4>>

ReadBitReturned ==
  chip = "EEPROM" /\ stack = <<>> /\ call.op = "EEPROM::readBit"

\* C25: EEPROM readBit with idx > 7 latches INDEX_BIT_OUT_OF_RANGE and
\* sends nothing, for every 16-bit addr, also for addr > 0x1FF.
C25_ReadBitIndex ==
  (ReadBitReturned /\ call.index > 7) =>
    latched = "INDEX_BIT_OUT_OF_RANGE" /\ bus = <<>>

\* What the driver does: the address is tested before the index, so idx > 7
\* latches INDEX_BIT_OUT_OF_RANGE for addr <= 0x1FF only, and
\* ADDRESS_OUT_OF_RANGE beyond; nothing is sent in either case.
C25_ReadBitRangeFirst ==
  (ReadBitReturned /\ call.index > 7) =>
    /\ bus = <<>>
    /\ latched = IF call.address > 511 THEN "ADDRESS_OUT_OF_RANGE"
                 ELSE "INDEX_BIT_OUT_OF_RANGE"

\* readBit(0x200, 8) has returned ADDRESS_OUT_OF_RANGE.
C25_AddressFirst ==
  /\ ReadBitReturned
  /\ call.address = 512
  /\ call.index = 8
  /\ latched = "ADDRESS_OUT_OF_RANGE"
  /\ bus = <<>>

\* The pages with a slot for a request of `size' bytes, 1 <= size <= 180:
\* a page of the class of the size with fewer used segments than the class
\* has (15 bytes and less: SMALL, 63 slots; more: BIG, 5 slots), or a FREE
\* page.
Usable(pt, size) ==
  {p \in Pages :
     \/ pt[p].type = "PAGE_FREE"
     \/ size <= 15 /\ pt[p].type = "PAGE_SMALL" /\ pt[p].used_segments < 63
     \/ size > 15 /\ pt[p].type = "PAGE_BIG" /\ pt[p].used_segments < 5}

\* The call of this step was custom_malloc(size), 1 <= size <= 180, and it
\* returned null.
MallocFailed ==
  /\ n' = n + 1
  /\ last'.op = "custom_malloc"
  /\ last'.arg \in 1 .. 180
  /\ last'.ret = NULL

\* C26: a custom_malloc(size) with 1 <= size <= 180 that returns null was
\* called when no page of the class had a free slot and no page was FREE
\* (free slots of the other class do not count), and it has changed no
\* page-table entry and no page header.
C26_FailsOnlyWhenFull ==
  [][MallocFailed =>
       /\ Usable(page_table, last'.arg) = {}
       /\ page_table' = page_table
       /\ heap' = heap]_allocVars

\* A BIG allocation has failed while page 0, a SMALL page, has 62 free
\* slots: every other page is a full BIG page.
C26_Witness ==
  /\ mode = "fill_mixed"
  /\ last.op = "custom_malloc"
  /\ last.arg > 15
  /\ last.ret = NULL
  /\ page_table[0].type = "PAGE_SMALL"
  /\ page_table[0].used_segments = 1
  /\ \A p \in Pages \ {0} :
       page_table[p].type = "PAGE_BIG" /\ page_table[p].used_segments = 5

\* The page a pointer lies in, its offset in the page, and the size of the
\* slot it names: 16 bytes in a SMALL page, 192 in a BIG one (pages of 1024
\* bytes, the first 16 the header).
PageOf(ptr) == (ptr - HeapBase) \div 1024
OffsetOf(ptr) == (ptr - HeapBase) % 1024
SlotSizeAt(ptr) == SlotSize(page_table[PageOf(ptr)].type)

\* C27: the slots of the live allocations lie in the heap, in a page that
\* is not FREE, after the 16-byte header of their page and inside the
\* page, so they overlap no header; the slots of two live allocations are
\* disjoint; and custom_malloc returns no pointer that is live.
C27_LiveDisjoint ==
  /\ [](/\ \A ptr \in live :
             /\ ptr >= HeapBase
             /\ PageOf(ptr) \in 0 .. 63
             /\ page_table[PageOf(ptr)].type # "PAGE_FREE"
             /\ OffsetOf(ptr) >= 16
             /\ OffsetOf(ptr) + SlotSizeAt(ptr) <= 1024
        /\ \A ptr \in live : \A other \in live \ {ptr} :
             \/ ptr + SlotSizeAt(ptr) <= other
             \/ other + SlotSizeAt(other) <= ptr)
  /\ [][(last'.op = "custom_malloc" /\ last'.ret # NULL) =>
          (last'.ret \notin live /\ last'.ret \in live')]_allocVars

\* A SMALL and a BIG allocation are live next to a slot that was released
\* and allocated again.
C27_Witness ==
  /\ mode = "explore"
  /\ Cardinality(live) = 3
  /\ \E ptr \in live : SlotSizeAt(ptr) = 16
  /\ \E ptr \in live : SlotSizeAt(ptr) = 192
  /\ last.op = "custom_malloc"
  /\ last.ret \in live
  /\ \E ptr \in live : ptr > last.ret /\ PageOf(ptr) = PageOf(last.ret)

\* readArray or writeArray of the EEPROM has returned from a call with
\* len >= 1.
EepromArrayReturned ==
  /\ chip = "EEPROM"
  /\ stack = <<>>
  /\ call.op \in {"EEPROM::readArray", "EEPROM::writeArray"}
  /\ call.length >= 1

\* C28: EEPROM readArray and writeArray with len >= 1 latch
\* ADDRESS_OUT_OF_RANGE and send nothing whenever addr + len - 1, the sum
\* of the numbers and not its low 16 bits, exceeds 0x1FF, whatever the
\* buffer; and a call in range with a buffer sends something.
C28_ArrayRangeNoWrap ==
  EepromArrayReturned =>
    IF call.address + call.length - 1 > 511
    THEN latched = "ADDRESS_OUT_OF_RANGE" /\ bus = <<>>
    ELSE latched # "ADDRESS_OUT_OF_RANGE" /\ (call.data.null <=> bus = <<>>)

\* readArray(0xFFFF, 2, out) has returned: the sum is 0x10000, whose low
\* 16 bits are 0.
C28_Witness ==
  /\ EepromArrayReturned
  /\ call.op = "EEPROM::readArray"
  /\ call.address = 65535
  /\ call.length = 2
  /\ ~call.data.null
  /\ (call.address + call.length - 1) % 65536 = 0
  /\ latched = "ADDRESS_OUT_OF_RANGE"
  /\ bus = <<>>

=============================================================================
